---- MODULE Spec2Model ----
(***************************************************************************)
(* The task pipeline engine of parallax-voice-office.                      *)
(*                                                                         *)
(* Two engines share the Task model: UniversalTaskProcessor (obp-CLI.py),  *)
(* which walks a configured step list per task and is run as one process   *)
(* per command, and TaskProcessor (obp-GUI.py), a long-lived server with a *)
(* background worker thread.  Each has its own variables and its own       *)
(* specification (SpecCLI, SpecGUI); SpecStore applies save/load to        *)
(* bounded inputs.                                                         *)
(*                                                                         *)
(* Representation.  An enum member is the pair <<class, value>>, its       *)
(* serialized form the bare value string.  A Python dict is the sequence   *)
(* of its [k, v] items in insertion order.  None is the string NoneVal.    *)
(* Timestamps are ticks of a bounded clock.  processing_time is "0" until  *)
(* a run measured it and "elapsed" afterwards.  json.dump/json.load are    *)
(* the identity on the values that occur here (strings, integers, dicts    *)
(* and lists of them).                                                     *)
(***************************************************************************)
EXTENDS Integers, Sequences, FiniteSets, TLC

\* ---------------------------------------------------------------- bounds
MaxClock == 1
MaxTasks == 2
RetryCap == 3
MaxFaults == 1
MaxWorkers == 2
MaxRequests == 4
MaxStored == 2

\* ------------------------------------------------------ program constants
\* 'max_retries': 3
MaxRetries == 3

NoneVal == "<None>"

\* ------------------------------------------------------------- enums
TaskTypeValues == {"search", "process", "create", "chain", "code", "custom"}

TaskStatusValues == {"pending", "processing", "completed", "failed", "retrying"}

TaskType(v) == <<"TaskType", v>>

TaskStatus(v) == <<"TaskStatus", v>>

PENDING == TaskStatus("pending")

PROCESSING == TaskStatus("processing")

COMPLETED == TaskStatus("completed")

FAILED == TaskStatus("failed")

RETRYING == TaskStatus("retrying")

EnumValue(e) == e[2]

\* ------------------------------------------------------------- dicts
EmptyDict == << >>

DictKeys(d) == [i \in 1..Len(d) |-> d[i].k]

DictHas(d, key) == \E i \in 1..Len(d) : d[i].k = key

DictSet(d, key, val) ==
    IF DictHas(d, key)
    THEN [i \in 1..Len(d) |-> IF d[i].k = key THEN [k |-> key, v |-> val] ELSE d[i]]
    ELSE Append(d, [k |-> key, v |-> val])

Range(s) == {s[i] : i \in 1..Len(s)}

\* ------------------------------------------------------------- Task
NoTime == -1

\* Task(**item) followed by __post_init__: created_at is filled when it is
\* empty, updated_at is always set to the time of construction.
TaskInit(item, now) ==
    [item EXCEPT !.created_at = IF item.created_at = NoTime THEN now ELSE @,
                 !.updated_at = now]

\* The dataclass defaults of the fields a constructor call leaves out.
TaskDefaults(id, type, content, config_name, metadata) ==
    [id |-> id, type |-> type, content |-> content, config_name |-> config_name,
     status |-> PENDING, results |-> EmptyDict, metadata |-> metadata,
     error |-> NoneVal, retry_count |-> 0, created_at |-> NoTime,
     updated_at |-> NoTime, processing_time |-> "0"]

\* asdict(task) with type and status replaced by their values.
TaskToDict(t) ==
    [t EXCEPT !.type = EnumValue(t.type), !.status = EnumValue(t.status)]

\* The loop of load_queue over the items of the snapshot: strings back to
\* enum members, then Task(**item).
ItemValid(item) ==
    item.type \in TaskTypeValues /\ item.status \in TaskStatusValues

ItemToTask(item, now) ==
    TaskInit([item EXCEPT !.type = TaskType(item.type),
                          !.status = TaskStatus(item.status)], now)

\* save_queue: the whole queue, overwriting the file.
SnapshotOf(queue) == [state |-> "ok", data |-> [i \in 1..Len(queue) |-> TaskToDict(queue[i])]]

NoFile == [state |-> "absent", data |-> << >>]

\* open(queue_file, 'w') has truncated the file and json.dump has not
\* finished: what a killed process leaves behind.
TornFile == [state |-> "torn", data |-> << >>]

MkId(prefix, t, suffix) == [p |-> prefix, t |-> t, s |-> suffix]

\* INSERT OR REPLACE INTO tasks: one row per id.
Upsert(db, row) == {r \in db : r.id # row.id} \cup {row}

\* The row save_task_to_db / save_to_db writes (created_at is not among
\* its columns).
RowOf(t, stamp) ==
    [id |-> t.id, type |-> EnumValue(t.type), content |-> t.content,
     config_name |-> t.config_name, status |-> EnumValue(t.status),
     results |-> t.results, metadata |-> t.metadata, error |-> t.error,
     retry_count |-> t.retry_count, updated_at |-> stamp,
     processing_time |-> t.processing_time]

(***************************************************************************)
(* UniversalTaskProcessor (obp-CLI.py).  One process per command: the      *)
(* constructor loads the snapshot, the command runs, the process exits.    *)
(* cliPc is "down" between processes, "batch" in the loop of run_batch,    *)
(* "task" inside process_task before step cliStep, "after" when            *)
(* process_task has returned and run_batch is about to save the queue,     *)
(* "api" while the REST server is serving.                                 *)
(***************************************************************************)
VARIABLES cliQueue, cliFile, cliDb, cliPc, cliIdx, cliStep, cliStop, cliNow,
          cliKills, cliStops

cliVars == <<cliQueue, cliFile, cliDb, cliPc, cliIdx, cliStep, cliStop, cliNow,
             cliKills, cliStops>>

VARIABLES guiUp, guiHeap, guiQueue, guiFile, guiDb, guiProcessing, guiWorkers,
          guiNow, guiFaults, guiRequests, guiAccepted, guiReq, guiData, guiReply

guiVars == <<guiUp, guiHeap, guiQueue, guiFile, guiDb, guiProcessing, guiWorkers,
             guiNow, guiFaults, guiRequests, guiAccepted, guiReq, guiData, guiReply>>

\* The snapshot round trip on its own: a queue in memory, the file written
\* from it, and what each engine's load_queue makes of a file.
VARIABLES stEngine, stQueue, stFile, stLoaded, stRaised, stPc, stNow

stVars == <<stEngine, stQueue, stFile, stLoaded, stRaised, stPc, stNow>>

\* format_prompt on its own: a template, the task it is resolved for, and
\* what the call gave.
VARIABLES fmTemplate, fmTask, fmOut, fmPc

fmVars == <<fmTemplate, fmTask, fmOut, fmPc>>

\* BackupManager: the backup directories under backup_dir, max_backups, the
\* clock that names new backups, and the last call with what it found.
VARIABLES bkDirs, bkMax, bkNow, bkDone

bkVars == <<bkDirs, bkMax, bkNow, bkDone>>

\* MCPHTTPClient._request: max_retries, the method, the position in the
\* call, what the attempts gave, and the result returned.
VARIABLES rqMax, rqMethod, rqPc, rqTrace, rqResult

rqVars == <<rqMax, rqMethod, rqPc, rqTrace, rqResult>>

\* MCPManager: servers, server_instances, the clock of last_used, and the
\* last call of execute_tool with what it found and gave.
VARIABLES mcServers, mcInstances, mcNow, mcDone

mcVars == <<mcServers, mcInstances, mcNow, mcDone>>

toolVars == <<bkVars, rqVars, mcVars>>

PluginStep(name, plugin) ==
    [name |-> name, hasPlugin |-> TRUE, plugin |-> plugin, prompt |-> ""]

PromptStep(name, prompt) ==
    [name |-> name, hasPlugin |-> FALSE, plugin |-> "", prompt |-> prompt]

\* create_default_task_configs: search_tasks.yaml and process_tasks.yaml.
SearchSteps ==
    << PluginStep("web_search", "web_search"),
       PromptStep("summarize", "Summarize: {web_search_results}"),
       PromptStep("create_report", "Report: {summarize_result}"),
       PluginStep("save_report", "file_operations") >>

ProcessSteps ==
    << PromptStep("analyze", "Analyze: {content}"),
       PromptStep("improve", "Improve: {content}"),
       PromptStep("final_polish", "Polish: {improve_result}") >>

\* A configuration file of the user in task_configs/: a step whose plugin
\* is not registered, a step of a registered plugin, a prompt step, and a
\* step with neither key.
CustomSteps ==
    << PluginStep("fetch", "web_scraper"),
       PluginStep("run", "code_execution"),
       PromptStep("digest", "Digest: {run}"),
       PromptStep("idle", "") >>

\* load_task_configs: one entry per *.yaml of the directory.
ConfigNames == {"search_tasks", "process_tasks", "custom_tasks"}

TaskConfigSteps(name) ==
    CASE name = "search_tasks" -> SearchSteps
      [] name = "process_tasks" -> ProcessSteps
      [] name = "custom_tasks" -> CustomSteps
      [] OTHER -> << >>

\* init_plugins
Plugins == {"web_search", "file_operations", "code_execution"}

\* A step loop in which a plugin that is not registered raises.
StepOutcomesStrict(step) ==
    IF step.hasPlugin
    THEN CASE step.plugin \notin Plugins -> {"raise"}
           [] step.plugin = "web_search" -> {"value"}
           [] step.plugin = "code_execution" -> {"value", "error_value"}
           [] step.plugin = "file_operations" -> {"value", "raise"}
    ELSE IF step.prompt # "" THEN {"value", "raise"}
         ELSE {"skip"}

\* What a step can do.  WebSearchPlugin without an API key returns mock
\* results.  CodeExecutionPlugin returns the output of the code, or an
\* error text ("Language x not allowed", "Python execution error: ...")
\* in place of raising.  FileOperationsPlugin with operation 'create'
\* writes the file unprotected: "Created file: ..." or the OSError.
\* process_with_ollama re-raises every failure.  A step whose plugin is
\* not registered, or that has neither key, does nothing.
StepOutcomes(step) ==
    IF step.hasPlugin
    THEN CASE step.plugin \notin Plugins -> {"skip"}
           [] step.plugin = "web_search" -> {"value"}
           [] step.plugin = "code_execution" -> {"value", "error_value"}
           [] step.plugin = "file_operations" -> {"value", "raise"}
    ELSE IF step.prompt # "" THEN {"value", "raise"}
         ELSE {"skip"}

StepValue(step, outcome) ==
    IF step.hasPlugin
    THEN CASE step.plugin = "web_search" -> "{results: Mock search results}"
           [] step.plugin = "code_execution" ->
                IF outcome = "value" THEN "stdout" ELSE "Language ruby not allowed"
           [] OTHER -> "Created file: f"
    ELSE "llm text"

\* str(e) of what the step raises.
ExceptionMessages(step) ==
    IF step.hasPlugin THEN {"Permission denied"}
    ELSE {"API error: 500"}

\* The threshold placed one attempt later.
StatusAfterFailureLate(retry_count) == IF retry_count <= MaxRetries THEN RETRYING ELSE FAILED

\* if task.retry_count < self.config.get('max_retries', 3)
StatusAfterFailure(retry_count) ==
    IF retry_count < MaxRetries THEN RETRYING ELSE FAILED

\* The except branch of process_task.
CLIFail(t, msg, now) ==
    [t EXCEPT !.error = msg,
              !.retry_count = @ + 1,
              !.status = StatusAfterFailure(t.retry_count + 1),
              !.updated_at = now]

\* The end of the try block of process_task.
CLISucceed(t, now) ==
    [t EXCEPT !.status = COMPLETED, !.processing_time = "elapsed", !.updated_at = now]

\* A step loop that treats an error text returned by a plugin as a failure
\* of the run.
CLIStoreFailingOnErrorValue(t, step, outcome) ==
    IF outcome = "error_value"
    THEN CLIFail(t, StepValue(step, outcome), t.updated_at)
    ELSE [t EXCEPT !.results = DictSet(@, step.name, StepValue(step, outcome))]

\* One iteration of the step loop that stores a result.
CLIStore(t, step, outcome) ==
    [t EXCEPT !.results = DictSet(@, step.name, StepValue(step, outcome))]

CLILoadable(file) ==
    file.state # "torn" /\ \A i \in 1..Len(file.data) : ItemValid(file.data[i])

\* load_queue: nothing to do without a file.
CLILoadQueue(file, now) ==
    IF file.state = "absent" THEN << >>
    ELSE [i \in 1..Len(file.data) |-> ItemToTask(file.data[i], now)]

CLITypeInputs == {"search", "custom", "chain"}

CLIContentInputs == {"alpha"}

CLIMetaInputs == {EmptyDict}

CLIInit ==
    /\ cliQueue = << >>
    /\ cliFile = NoFile
    /\ cliDb = {}
    /\ cliPc = "down"
    /\ cliIdx = 0
    /\ cliStep = 0
    /\ cliStop = FALSE
    /\ cliNow = 0
    /\ cliKills = 0
    /\ cliStops = 0

\* python obp-CLI.py --add-file F, with F holding one task marker:
\* the constructor, parse_task_file, exit.
CLIAddFile ==
    /\ cliPc = "down"
    /\ CLILoadable(cliFile)
    /\ Len(cliFile.data) < MaxTasks
    /\ \E ty \in CLITypeInputs, c \in CLIContentInputs, m \in CLIMetaInputs :
         LET loaded == CLILoadQueue(cliFile, cliNow)
             task == TaskInit(TaskDefaults(MkId(ty, cliNow, "0"), TaskType(ty), c,
                                           ty \o "_tasks", m), cliNow)
             queue == Append(loaded, task)
         IN  /\ cliFile' = SnapshotOf(queue)
             /\ cliQueue' = << >>
    /\ UNCHANGED <<cliDb, cliPc, cliIdx, cliStep, cliStop, cliNow, cliKills, cliStops>>
    /\ UNCHANGED <<guiVars, stVars, fmVars, toolVars>>

\* python obp-CLI.py --api: the constructor, then the REST server serves.
CLIServe ==
    /\ cliPc = "down"
    /\ CLILoadable(cliFile)
    /\ cliQueue' = CLILoadQueue(cliFile, cliNow)
    /\ cliPc' = "api"
    /\ UNCHANGED <<cliFile, cliDb, cliIdx, cliStep, cliStop, cliNow, cliKills, cliStops>>
    /\ UNCHANGED <<guiVars, stVars, fmVars, toolVars>>

\* POST /add_task with {content} and no type, config or metadata: the
\* route's defaults are type 'process' and config 'process_tasks'.
CLIApiAddTask ==
    /\ cliPc = "api"
    /\ Len(cliQueue) < MaxTasks
    /\ \E c \in CLIContentInputs :
         LET task == TaskInit(TaskDefaults(MkId("api", cliNow, ""), TaskType("process"), c,
                                           "process_tasks", EmptyDict), cliNow)
         IN  /\ cliQueue' = Append(cliQueue, task)
             /\ cliFile' = SnapshotOf(cliQueue')
    /\ UNCHANGED <<cliDb, cliPc, cliIdx, cliStep, cliStop, cliNow, cliKills, cliStops>>
    /\ UNCHANGED <<guiVars, stVars, fmVars, toolVars>>

\* python obp-CLI.py --run: the constructor, then run_batch starts.
CLIRun ==
    /\ cliPc = "down"
    /\ CLILoadable(cliFile)
    /\ cliQueue' = CLILoadQueue(cliFile, cliNow)
    /\ cliPc' = "batch"
    /\ cliIdx' = 1
    /\ cliStep' = 0
    /\ cliStop' = FALSE
    /\ UNCHANGED <<cliFile, cliDb, cliNow, cliKills, cliStops>>
    /\ UNCHANGED <<guiVars, stVars, fmVars, toolVars>>

\* run_batch: the for loop is exhausted, the process exits.
CLIBatchDone ==
    /\ cliPc = "batch"
    /\ cliIdx > Len(cliQueue)
    /\ cliPc' = "down"
    /\ cliQueue' = << >>
    /\ cliIdx' = 0
    /\ cliStop' = FALSE
    /\ UNCHANGED <<cliFile, cliDb, cliStep, cliNow, cliKills, cliStops>>
    /\ UNCHANGED <<guiVars, stVars, fmVars, toolVars>>

\* run_batch: a completed task is passed over.
CLISkipCompleted ==
    /\ cliPc = "batch"
    /\ cliIdx <= Len(cliQueue)
    /\ cliQueue[cliIdx].status = COMPLETED
    /\ cliIdx' = cliIdx + 1
    /\ UNCHANGED <<cliQueue, cliFile, cliDb, cliPc, cliStep, cliStop, cliNow, cliKills, cliStops>>
    /\ UNCHANGED <<guiVars, stVars, fmVars, toolVars>>

\* A process_task that records the missing configuration as a failure.
CLINoConfigAsFailure ==
    /\ cliPc = "batch"
    /\ cliIdx <= Len(cliQueue)
    /\ cliQueue[cliIdx].status # COMPLETED
    /\ cliQueue[cliIdx].config_name \notin ConfigNames
    /\ cliQueue' = [cliQueue EXCEPT ![cliIdx] = CLIFail(@, "No configuration found", cliNow)]
    /\ cliPc' = "after"
    /\ UNCHANGED <<cliFile, cliDb, cliIdx, cliStep, cliStop, cliNow, cliKills, cliStops>>
    /\ UNCHANGED <<guiVars, stVars, fmVars, toolVars>>

\* process_task: no configuration for task.config_name, return False.
CLINoConfig ==
    /\ cliPc = "batch"
    /\ cliIdx <= Len(cliQueue)
    /\ cliQueue[cliIdx].status # COMPLETED
    /\ cliQueue[cliIdx].config_name \notin ConfigNames
    /\ cliPc' = "after"
    /\ UNCHANGED <<cliQueue, cliFile, cliDb, cliIdx, cliStep, cliStop, cliNow, cliKills, cliStops>>
    /\ UNCHANGED <<guiVars, stVars, fmVars, toolVars>>

\* A process_task that takes the run up behind the results it finds.
CLIBeginTaskResuming ==
    /\ cliPc = "batch"
    /\ cliIdx <= Len(cliQueue)
    /\ cliQueue[cliIdx].status # COMPLETED
    /\ cliQueue[cliIdx].config_name \in ConfigNames
    /\ cliQueue' = [cliQueue EXCEPT ![cliIdx].status = PROCESSING]
    /\ cliPc' = "task"
    /\ cliStep' = Len(cliQueue[cliIdx].results) + 1
    /\ UNCHANGED <<cliFile, cliDb, cliIdx, cliStop, cliNow, cliKills, cliStops>>
    /\ UNCHANGED <<guiVars, stVars, fmVars, toolVars>>

\* process_task: task.status = PROCESSING, and the step loop is entered.
CLIBeginTask ==
    /\ cliPc = "batch"
    /\ cliIdx <= Len(cliQueue)
    /\ cliQueue[cliIdx].status # COMPLETED
    /\ cliQueue[cliIdx].config_name \in ConfigNames
    /\ cliQueue' = [cliQueue EXCEPT ![cliIdx].status = PROCESSING]
    /\ cliPc' = "task"
    /\ cliStep' = 1
    /\ UNCHANGED <<cliFile, cliDb, cliIdx, cliStop, cliNow, cliKills, cliStops>>
    /\ UNCHANGED <<guiVars, stVars, fmVars, toolVars>>

\* A step loop that treats the stop request as a failure of the run.
CLICancelledAsFailure ==
    /\ cliPc = "task"
    /\ cliStep <= Len(TaskConfigSteps(cliQueue[cliIdx].config_name))
    /\ cliStop
    /\ cliQueue' = [cliQueue EXCEPT ![cliIdx] = CLIFail(@, "Processing stop requested", cliNow)]
    /\ cliPc' = "after"
    /\ UNCHANGED <<cliFile, cliDb, cliIdx, cliStep, cliStop, cliNow, cliKills, cliStops>>
    /\ UNCHANGED <<guiVars, stVars, fmVars, toolVars>>

CLICurrentSteps == TaskConfigSteps(cliQueue[cliIdx].config_name)

\* The step loop finds the stop event set: return False.
CLICancelled ==
    /\ cliPc = "task"
    /\ cliStep <= Len(CLICurrentSteps)
    /\ cliStop
    /\ cliPc' = "after"
    /\ UNCHANGED <<cliQueue, cliFile, cliDb, cliIdx, cliStep, cliStop, cliNow, cliKills, cliStops>>
    /\ UNCHANGED <<guiVars, stVars, fmVars, toolVars>>

\* One iteration of the step loop that raises nothing.  A prompt step
\* also saves the task to the database.
CLIStepReturns ==
    /\ cliPc = "task"
    /\ cliStep <= Len(CLICurrentSteps)
    /\ ~cliStop
    /\ LET step == CLICurrentSteps[cliStep] IN
       \E outcome \in StepOutcomes(step) \ {"raise"} :
         LET t == IF outcome = "skip" THEN cliQueue[cliIdx]
                  ELSE CLIStore(cliQueue[cliIdx], step, outcome)
         IN  /\ cliQueue' = [cliQueue EXCEPT ![cliIdx] = t]
             /\ cliDb' = IF ~step.hasPlugin /\ step.prompt # ""
                         THEN Upsert(cliDb, RowOf(t, t.updated_at))
                         ELSE cliDb
    /\ cliStep' = cliStep + 1
    /\ UNCHANGED <<cliFile, cliPc, cliIdx, cliStop, cliNow, cliKills, cliStops>>
    /\ UNCHANGED <<guiVars, stVars, fmVars, toolVars>>

\* One iteration of the step loop that raises: the except branch.
CLIStepRaises ==
    /\ cliPc = "task"
    /\ cliStep <= Len(CLICurrentSteps)
    /\ ~cliStop
    /\ cliQueue[cliIdx].retry_count < RetryCap
    /\ LET step == CLICurrentSteps[cliStep] IN
       /\ "raise" \in StepOutcomes(step)
       /\ \E msg \in ExceptionMessages(step) :
            LET t == CLIFail(cliQueue[cliIdx], msg, cliNow)
            IN  /\ cliQueue' = [cliQueue EXCEPT ![cliIdx] = t]
                /\ cliDb' = Upsert(cliDb, RowOf(t, t.updated_at))
    /\ cliPc' = "after"
    /\ UNCHANGED <<cliFile, cliIdx, cliStep, cliStop, cliNow, cliKills, cliStops>>
    /\ UNCHANGED <<guiVars, stVars, fmVars, toolVars>>

\* The step loop is exhausted: COMPLETED, save_task_results, save_task_to_db.
CLIComplete ==
    /\ cliPc = "task"
    /\ cliStep > Len(CLICurrentSteps)
    /\ LET t == CLISucceed(cliQueue[cliIdx], cliNow)
       IN  /\ cliQueue' = [cliQueue EXCEPT ![cliIdx] = t]
           /\ cliDb' = Upsert(cliDb, RowOf(t, t.updated_at))
    /\ cliPc' = "after"
    /\ UNCHANGED <<cliFile, cliIdx, cliStep, cliStop, cliNow, cliKills, cliStops>>
    /\ UNCHANGED <<guiVars, stVars, fmVars, toolVars>>

\* run_batch after process_task: save_queue, the delay, the next task.
CLIBatchSave ==
    /\ cliPc = "after"
    /\ cliFile' = SnapshotOf(cliQueue)
    /\ cliPc' = "batch"
    /\ cliIdx' = cliIdx + 1
    /\ cliStep' = 0
    /\ UNCHANGED <<cliQueue, cliDb, cliStop, cliNow, cliKills, cliStops>>
    /\ UNCHANGED <<guiVars, stVars, fmVars, toolVars>>

\* The embedding caller sets the threading.Event stop_processing.
CLIStopSet ==
    /\ cliPc \in {"batch", "task", "after"}
    /\ ~cliStop
    /\ cliKills + cliStops < MaxFaults
    /\ cliStop' = TRUE
    /\ cliStops' = cliStops + 1
    /\ UNCHANGED <<cliQueue, cliFile, cliDb, cliPc, cliIdx, cliStep, cliNow, cliKills>>
    /\ UNCHANGED <<guiVars, stVars, fmVars, toolVars>>

\* The process is killed; what it held in memory is gone.
CLIKill ==
    /\ cliPc # "down"
    /\ cliKills + cliStops < MaxFaults
    /\ cliKills' = cliKills + 1
    /\ cliPc' = "down"
    /\ cliQueue' = << >>
    /\ cliIdx' = 0
    /\ cliStep' = 0
    /\ cliStop' = FALSE
    /\ UNCHANGED <<cliFile, cliDb, cliNow, cliStops>>
    /\ UNCHANGED <<guiVars, stVars, fmVars, toolVars>>

CLITick ==
    /\ cliNow < MaxClock
    /\ cliNow' = cliNow + 1
    /\ UNCHANGED <<cliQueue, cliFile, cliDb, cliPc, cliIdx, cliStep, cliStop, cliKills, cliStops>>
    /\ UNCHANGED <<guiVars, stVars, fmVars, toolVars>>

CLINext ==
    \/ CLIAddFile
    \/ CLIServe
    \/ CLIApiAddTask
    \/ CLIRun
    \/ CLIBatchDone
    \/ CLISkipCompleted
    \/ CLINoConfig
    \/ CLIBeginTask
    \/ CLICancelled
    \/ CLIStepReturns
    \/ CLIStepRaises
    \/ CLIComplete
    \/ CLIBatchSave
    \/ CLIStopSet
    \/ CLIKill
    \/ CLITick

(***************************************************************************)
(* TaskProcessor (obp-GUI.py).  A server process: the constructor loads    *)
(* the snapshot, request handlers run on request threads, and              *)
(* start_processing creates a worker thread running _process_loop.         *)
(* Task objects live in guiHeap and are held by reference (their index):   *)
(* guiQueue is the list self.queue, a worker keeps the reference of the    *)
(* task it picked even when the list is replaced.  A request handler is    *)
(* one action; the worker is one action per statement that another thread  *)
(* can observe.                                                            *)
(*   worker pc: "none" no thread, "loop" at the while test, "picked"       *)
(*   before process_task, "running" in the try block before result         *)
(*   guiWorkers[w].step, "persist" before save_to_db and save_queue,       *)
(*   "sleep" in time.sleep(2), "halting" before self.processing = False.   *)
(***************************************************************************)
Workers == 1..MaxWorkers

NoWorker == [pc |-> "none", ref |-> 0, step |-> 0]

\* No request thread is between the two statements of clear_completed or
\* delete_task, or between the test and the assignments of update_task.
\* A request in flight holds the handler's locals: the new list and the ids
\* it leaves out, initial_len, the task update_task found and the content
\* it was given.
NoRequest == [op |-> "none", list |-> << >>, drop |-> {}, len |-> 0, ref |-> 0, content |-> ""]

\* What the last request of this process returned when it was delete_task,
\* update_task or start_processing, and for which task_id; NoReply after any
\* other request and before the first.
Reply(op, id, ret) == [op |-> op, id |-> id, ret |-> ret]

NoReply == Reply("none", MkId("", 0, ""), FALSE)

\* return jsonify({'status': 'started'})
StartReply == Reply("start_processing", MkId("", 0, ""), TRUE)

\* An id no task of the queue has.
UnknownId == MkId("unknown", 0, "")

\* No save_queue of a worker is between building queue_data and writing it.
NoData == [w \in Workers |-> << >>]

\* A heap cell no list and no thread refers to any more.
Freed ==
    [id |-> MkId("", 0, ""), type |-> TaskType("custom"), content |-> "",
     config_name |-> NoneVal, status |-> COMPLETED, results |-> EmptyDict,
     metadata |-> EmptyDict, error |-> NoneVal, retry_count |-> 0,
     created_at |-> 0, updated_at |-> 0, processing_time |-> "0"]

Collect(heap, queue, workers) ==
    [r \in 1..Len(heap) |->
       IF r \in Range(queue) \/ \E w \in Workers : workers[w].ref = r
       THEN heap[r] ELSE Freed]

\* The tasks of self.queue, in order.
GUIQueueTasks == [i \in 1..Len(guiQueue) |-> guiHeap[guiQueue[i]]]

\* The row save_to_db writes: no config_name column, updated_at is now().
GUIRowOf(t, now) ==
    [id |-> t.id, type |-> EnumValue(t.type), content |-> t.content,
     status |-> EnumValue(t.status), results |-> t.results,
     metadata |-> t.metadata, error |-> t.error, retry_count |-> t.retry_count,
     updated_at |-> now, processing_time |-> t.processing_time]

\* load_queue: any exception while reading empties the queue.
GUILoadQueue(file, now) ==
    IF file.state = "absent" THEN << >>
    ELSE IF file.state = "torn" \/ \E i \in 1..Len(file.data) : ~ItemValid(file.data[i])
         THEN << >>
         ELSE [i \in 1..Len(file.data) |-> ItemToTask(file.data[i], now)]

\* The content of a request is any JSON value; NumberContent stands for a
\* number, which has no slice.
NumberContent == "<42>"

IsStr(content) == content # NumberContent

\* The keys process_task stores for a type, in order; "search" is the only
\* one computed without the model.
GUISteps(type) ==
    CASE type = TaskType("search") -> <<"search", "report">>
      [] type = TaskType("process") -> <<"processed">>
      [] type = TaskType("create") -> <<"created">>
      [] type = TaskType("code") -> <<"code">>
      [] type = TaskType("chain") -> <<"analyze", "expand", "finalize">>
      [] OTHER -> << >>

\* task.content[:50] raises TypeError when the content is not sliceable.
GUIStepRaises(t, key) == key = "search" /\ ~IsStr(t.content)

\* process_with_ollama never raises: it returns the text of the model or
\* a text starting with "Error: ".
GUIStepValues(t, key) ==
    IF key = "search" THEN {"Search results for: ..."}
    ELSE {"llm text", "Error: connection refused"}

\* An except branch that leaves the retry counter alone.
GUIFailUncounted(t, msg) ==
    [t EXCEPT !.status = FAILED, !.error = msg]

\* The except branch of process_task.
GUIFail(t, msg) ==
    [t EXCEPT !.status = FAILED, !.error = msg, !.retry_count = @ + 1]

\* _save_results_to_file, then COMPLETED and the processing time.
GUISucceed(t) ==
    [t EXCEPT !.results = DictSet(@, "save_document", "Content saved to: f"),
              !.status = COMPLETED,
              !.processing_time = "elapsed"]

GUITypeInputs == {"search", "process"}

GUIContentInputs == {"alpha", NumberContent}

GUIMetaInputs == {EmptyDict}

GUIInit ==
    /\ guiUp = FALSE
    /\ guiHeap = << >>
    /\ guiQueue = << >>
    /\ guiFile = NoFile
    /\ guiDb = {}
    /\ guiProcessing = FALSE
    /\ guiWorkers = [w \in Workers |-> NoWorker]
    /\ guiNow = 0
    /\ guiFaults = 0
    /\ guiRequests = 0
    /\ guiAccepted = {}
    /\ guiReq = NoRequest
    /\ guiData = NoData
    /\ guiReply = NoReply

\* processor = TaskProcessor(): init_database, load_queue.
GUIBoot ==
    /\ ~guiUp
    /\ guiUp' = TRUE
    /\ guiHeap' = GUILoadQueue(guiFile, guiNow)
    /\ guiQueue' = [i \in 1..Len(guiHeap') |-> i]
    /\ guiProcessing' = FALSE
    /\ guiWorkers' = [w \in Workers |-> NoWorker]
    /\ UNCHANGED <<guiFile, guiDb, guiNow, guiFaults, guiRequests, guiAccepted>>
    /\ guiReq' = NoRequest
    /\ guiData' = NoData
    /\ guiReply' = NoReply
    /\ UNCHANGED <<cliVars, stVars, fmVars, toolVars>>

\* add_task: append, save_queue, save_to_db.
GUIAddTask ==
    /\ guiUp
    /\ guiRequests < MaxRequests
    /\ guiRequests' = guiRequests + 1
    /\ Len(guiHeap) < MaxTasks
    /\ \E ty \in GUITypeInputs, c \in GUIContentInputs, m \in GUIMetaInputs :
         LET task == TaskInit(TaskDefaults(MkId(ty, guiNow, ""), TaskType(ty), c,
                                           NoneVal, m), guiNow)
         IN  /\ guiHeap' = Append(guiHeap, task)
             /\ guiQueue' = Append(guiQueue, Len(guiHeap) + 1)
             /\ guiFile' = SnapshotOf([i \in 1..Len(guiQueue') |-> guiHeap'[guiQueue'[i]]])
             /\ guiDb' = Upsert(guiDb, GUIRowOf(task, guiNow))
             /\ guiAccepted' = guiAccepted \cup {task.id}
    /\ UNCHANGED <<guiUp, guiProcessing, guiWorkers, guiNow, guiFaults>>
    /\ guiReply' = NoReply
    /\ UNCHANGED <<guiReq, guiData>>
    /\ UNCHANGED <<cliVars, stVars, fmVars, toolVars>>

\* start_processing: a no-op when the flag is set, else a new thread.
GUIStart ==
    /\ guiUp
    /\ guiRequests < MaxRequests
    /\ guiRequests' = guiRequests + 1
    /\ IF guiProcessing
       THEN UNCHANGED <<guiProcessing, guiWorkers>>
       ELSE /\ \E w \in Workers :
                 /\ guiWorkers[w].pc = "none"
                 /\ \A v \in Workers : v < w => guiWorkers[v].pc # "none"
                 /\ guiWorkers' = [guiWorkers EXCEPT ![w] = [pc |-> "loop", ref |-> 0, step |-> 0]]
            /\ guiProcessing' = TRUE
    /\ UNCHANGED <<guiUp, guiHeap, guiQueue, guiFile, guiDb, guiNow, guiFaults, guiAccepted>>
    /\ guiReply' = StartReply
    /\ UNCHANGED <<guiReq, guiData>>
    /\ UNCHANGED <<cliVars, stVars, fmVars, toolVars>>

\* stop_processing
GUIStop ==
    /\ guiUp
    /\ guiRequests < MaxRequests
    /\ guiRequests' = guiRequests + 1
    /\ guiProcessing' = FALSE
    /\ UNCHANGED <<guiUp, guiHeap, guiQueue, guiFile, guiDb, guiWorkers, guiNow, guiFaults, guiAccepted>>
    /\ guiReply' = NoReply
    /\ UNCHANGED <<guiReq, guiData>>
    /\ UNCHANGED <<cliVars, stVars, fmVars, toolVars>>

GUIPending == SelectSeq(guiQueue, LAMBDA r : guiHeap[r].status = PENDING)

\* _process_loop: the while test fails, the thread ends.
GUIWorkerExit(w) ==
    /\ guiWorkers[w].pc = "loop"
    /\ ~guiProcessing
    /\ guiWorkers' = [guiWorkers EXCEPT ![w] = NoWorker]
    /\ UNCHANGED <<guiUp, guiHeap, guiQueue, guiFile, guiDb, guiProcessing, guiNow, guiFaults, guiRequests, guiAccepted>>
    /\ UNCHANGED <<guiReq, guiData, guiReply>>
    /\ UNCHANGED <<cliVars, stVars, fmVars, toolVars>>

\* _process_loop: task = pending_tasks[0].
GUIWorkerPick(w) ==
    /\ guiWorkers[w].pc = "loop"
    /\ guiProcessing
    /\ GUIPending # << >>
    /\ guiWorkers' = [guiWorkers EXCEPT ![w] = [pc |-> "picked", ref |-> Head(GUIPending), step |-> 0]]
    /\ UNCHANGED <<guiUp, guiHeap, guiQueue, guiFile, guiDb, guiProcessing, guiNow, guiFaults, guiRequests, guiAccepted>>
    /\ UNCHANGED <<guiReq, guiData, guiReply>>
    /\ UNCHANGED <<cliVars, stVars, fmVars, toolVars>>

\* _process_loop: no pending task, the else branch is entered.
GUIWorkerNoPending(w) ==
    /\ guiWorkers[w].pc = "loop"
    /\ guiProcessing
    /\ GUIPending = << >>
    /\ guiWorkers' = [guiWorkers EXCEPT ![w].pc = "halting"]
    /\ UNCHANGED <<guiUp, guiHeap, guiQueue, guiFile, guiDb, guiProcessing, guiNow, guiFaults, guiRequests, guiAccepted>>
    /\ UNCHANGED <<guiReq, guiData, guiReply>>
    /\ UNCHANGED <<cliVars, stVars, fmVars, toolVars>>

\* _process_loop: self.processing = False; break.
GUIWorkerHalt(w) ==
    /\ guiWorkers[w].pc = "halting"
    /\ guiProcessing' = FALSE
    /\ guiWorkers' = [guiWorkers EXCEPT ![w] = NoWorker]
    /\ UNCHANGED <<guiUp, guiHeap, guiQueue, guiFile, guiDb, guiNow, guiFaults, guiRequests, guiAccepted>>
    /\ UNCHANGED <<guiReq, guiData, guiReply>>
    /\ UNCHANGED <<cliVars, stVars, fmVars, toolVars>>

\* process_task: status = PROCESSING, updated_at = now.
GUIWorkerBegin(w) ==
    /\ guiWorkers[w].pc = "picked"
    /\ LET r == guiWorkers[w].ref IN
       guiHeap' = [guiHeap EXCEPT ![r].status = PROCESSING, ![r].updated_at = guiNow]
    /\ guiWorkers' = [guiWorkers EXCEPT ![w].pc = "running", ![w].step = 1]
    /\ UNCHANGED <<guiUp, guiQueue, guiFile, guiDb, guiProcessing, guiNow, guiFaults, guiRequests, guiAccepted>>
    /\ UNCHANGED <<guiReq, guiData, guiReply>>
    /\ UNCHANGED <<cliVars, stVars, fmVars, toolVars>>

\* process_task: one result of the try block is stored.
GUIWorkerStep(w) ==
    /\ guiWorkers[w].pc = "running"
    /\ LET r == guiWorkers[w].ref
           t == guiHeap[r]
           k == guiWorkers[w].step
       IN  /\ k <= Len(GUISteps(t.type))
           /\ ~GUIStepRaises(t, GUISteps(t.type)[k])
           /\ \E val \in GUIStepValues(t, GUISteps(t.type)[k]) :
                guiHeap' = [guiHeap EXCEPT ![r].results = DictSet(@, GUISteps(t.type)[k], val)]
           /\ guiWorkers' = [guiWorkers EXCEPT ![w].step = k + 1]
    /\ UNCHANGED <<guiUp, guiQueue, guiFile, guiDb, guiProcessing, guiNow, guiFaults, guiRequests, guiAccepted>>
    /\ UNCHANGED <<guiReq, guiData, guiReply>>
    /\ UNCHANGED <<cliVars, stVars, fmVars, toolVars>>

\* process_task: the try block raises.
GUIWorkerRaise(w) ==
    /\ guiWorkers[w].pc = "running"
    /\ LET r == guiWorkers[w].ref
           t == guiHeap[r]
           k == guiWorkers[w].step
       IN  /\ k <= Len(GUISteps(t.type))
           /\ GUIStepRaises(t, GUISteps(t.type)[k])
           /\ guiHeap' = [guiHeap EXCEPT ![r] = GUIFail(t, "'int' object is not subscriptable")]
    /\ guiWorkers' = [guiWorkers EXCEPT ![w].pc = "persist"]
    /\ UNCHANGED <<guiUp, guiQueue, guiFile, guiDb, guiProcessing, guiNow, guiFaults, guiRequests, guiAccepted>>
    /\ UNCHANGED <<guiReq, guiData, guiReply>>
    /\ UNCHANGED <<cliVars, stVars, fmVars, toolVars>>

\* process_task: the end of the try block.
GUIWorkerFinish(w) ==
    /\ guiWorkers[w].pc = "running"
    /\ LET r == guiWorkers[w].ref
           t == guiHeap[r]
       IN  /\ guiWorkers[w].step > Len(GUISteps(t.type))
           /\ guiHeap' = [guiHeap EXCEPT ![r] = GUISucceed(t)]
    /\ guiWorkers' = [guiWorkers EXCEPT ![w].pc = "persist"]
    /\ UNCHANGED <<guiUp, guiQueue, guiFile, guiDb, guiProcessing, guiNow, guiFaults, guiRequests, guiAccepted>>
    /\ UNCHANGED <<guiReq, guiData, guiReply>>
    /\ UNCHANGED <<cliVars, stVars, fmVars, toolVars>>

\* process_task: updated_at, save_to_db, and save_queue up to the point
\* where queue_data has been built from the queue.
GUIWorkerPersist(w) ==
    /\ guiWorkers[w].pc = "persist"
    /\ LET r == guiWorkers[w].ref
           heap == [guiHeap EXCEPT ![r].updated_at = guiNow]
           workers == [guiWorkers EXCEPT ![w] = [pc |-> "write", ref |-> 0, step |-> 0]]
       IN  /\ guiDb' = Upsert(guiDb, GUIRowOf(heap[r], guiNow))
           /\ guiData' = [guiData EXCEPT ![w] = SnapshotOf([i \in 1..Len(guiQueue) |-> heap[guiQueue[i]]]).data]
           /\ guiWorkers' = workers
           /\ guiHeap' = Collect(heap, guiQueue \o guiReq.list, workers)
    /\ UNCHANGED <<guiUp, guiQueue, guiFile, guiProcessing, guiNow, guiFaults, guiRequests, guiAccepted>>
    /\ UNCHANGED <<guiReq, guiReply>>
    /\ UNCHANGED <<cliVars, stVars, fmVars, toolVars>>

\* process_task: save_to_db raises (the database is locked, the disk is
\* full).  Nothing catches it in process_task or in _process_loop: the
\* thread ends with the flag as it is.
GUIWorkerPersistRaises(w) ==
    /\ guiWorkers[w].pc = "persist"
    /\ guiFaults < MaxFaults
    /\ guiFaults' = guiFaults + 1
    /\ LET r == guiWorkers[w].ref
           heap == [guiHeap EXCEPT ![r].updated_at = guiNow]
           workers == [guiWorkers EXCEPT ![w] = NoWorker]
       IN  /\ guiWorkers' = workers
           /\ guiHeap' = Collect(heap, guiQueue \o guiReq.list, workers)
    /\ UNCHANGED <<guiUp, guiQueue, guiFile, guiDb, guiProcessing, guiNow, guiRequests, guiAccepted>>
    /\ UNCHANGED <<guiReq, guiData, guiReply>>
    /\ UNCHANGED <<cliVars, stVars, fmVars, toolVars>>

\* save_queue of the worker: open(queue_file, 'w'), json.dump(queue_data);
\* then the loop sleeps.
GUIWorkerWrite(w) ==
    /\ guiWorkers[w].pc = "write"
    /\ guiFile' = [state |-> "ok", data |-> guiData[w]]
    /\ guiData' = [guiData EXCEPT ![w] = << >>]
    /\ guiWorkers' = [guiWorkers EXCEPT ![w].pc = "sleep"]
    /\ UNCHANGED <<guiUp, guiHeap, guiQueue, guiDb, guiProcessing, guiNow, guiFaults, guiRequests, guiAccepted>>
    /\ UNCHANGED <<guiReq, guiReply>>
    /\ UNCHANGED <<cliVars, stVars, fmVars, toolVars>>

\* _process_loop: time.sleep(2) returns.
GUIWorkerWake(w) ==
    /\ guiWorkers[w].pc = "sleep"
    /\ guiWorkers' = [guiWorkers EXCEPT ![w].pc = "loop"]
    /\ UNCHANGED <<guiUp, guiHeap, guiQueue, guiFile, guiDb, guiProcessing, guiNow, guiFaults, guiRequests, guiAccepted>>
    /\ UNCHANGED <<guiReq, guiData, guiReply>>
    /\ UNCHANGED <<cliVars, stVars, fmVars, toolVars>>

\* clear_completed: the list comprehension has been evaluated.
GUIClearCompleted ==
    /\ guiUp
    /\ guiRequests < MaxRequests
    /\ guiRequests' = guiRequests + 1
    /\ guiReq.op = "none"
    /\ guiReq' = [op |-> "clear",
                  list |-> SelectSeq(guiQueue, LAMBDA r : guiHeap[r].status # COMPLETED),
                  drop |-> {guiHeap[r].id : r \in {q \in Range(guiQueue) : guiHeap[q].status = COMPLETED}},
                  len |-> 0, ref |-> 0, content |-> ""]
    /\ UNCHANGED <<guiUp, guiHeap, guiQueue, guiFile, guiDb, guiProcessing, guiWorkers, guiNow, guiFaults, guiAccepted>>
    /\ guiReply' = NoReply
    /\ UNCHANGED guiData
    /\ UNCHANGED <<cliVars, stVars, fmVars, toolVars>>

\* clear_completed: self.queue = <the new list>; save_queue.
GUIClearAssign ==
    /\ guiReq.op = "clear"
    /\ guiQueue' = guiReq.list
    /\ guiHeap' = Collect(guiHeap, guiQueue', guiWorkers)
    /\ guiFile' = SnapshotOf([i \in 1..Len(guiQueue') |-> guiHeap[guiQueue'[i]]])
    /\ guiAccepted' = {id \in guiAccepted : \E i \in 1..Len(guiQueue') : guiHeap[guiQueue'[i]].id = id}
    /\ guiReq' = NoRequest
    /\ UNCHANGED <<guiUp, guiDb, guiProcessing, guiWorkers, guiNow, guiFaults, guiRequests>>
    /\ UNCHANGED <<guiData, guiReply>>
    /\ UNCHANGED <<cliVars, stVars, fmVars, toolVars>>

\* A reset_failed that leaves the retry counter as it is.
GUIResetFailedKeepsCount ==
    /\ guiUp
    /\ guiRequests < MaxRequests
    /\ guiRequests' = guiRequests + 1
    /\ guiHeap' = [r \in 1..Len(guiHeap) |->
                     IF r \in Range(guiQueue) /\ guiHeap[r].status = FAILED
                     THEN [guiHeap[r] EXCEPT !.status = PENDING, !.error = NoneVal]
                     ELSE guiHeap[r]]
    /\ guiFile' = SnapshotOf([i \in 1..Len(guiQueue) |-> guiHeap'[guiQueue[i]]])
    /\ UNCHANGED <<guiUp, guiQueue, guiDb, guiProcessing, guiWorkers, guiNow, guiFaults, guiAccepted>>
    /\ guiReply' = NoReply
    /\ UNCHANGED <<guiReq, guiData>>
    /\ UNCHANGED <<cliVars, stVars, fmVars, toolVars>>

\* reset_failed
GUIResetFailed ==
    /\ guiUp
    /\ guiRequests < MaxRequests
    /\ guiRequests' = guiRequests + 1
    /\ guiHeap' = [r \in 1..Len(guiHeap) |->
                     IF r \in Range(guiQueue) /\ guiHeap[r].status = FAILED
                     THEN [guiHeap[r] EXCEPT !.status = PENDING, !.retry_count = 0, !.error = NoneVal]
                     ELSE guiHeap[r]]
    /\ guiFile' = SnapshotOf([i \in 1..Len(guiQueue) |-> guiHeap'[guiQueue[i]]])
    /\ UNCHANGED <<guiUp, guiQueue, guiDb, guiProcessing, guiWorkers, guiNow, guiFaults, guiAccepted>>
    /\ guiReply' = NoReply
    /\ UNCHANGED <<guiReq, guiData>>
    /\ UNCHANGED <<cliVars, stVars, fmVars, toolVars>>

\* delete_task(task_id), for the id of a task of the queue or an unknown
\* id: initial_len is read and the list comprehension evaluated.
GUIDeleteTask ==
    /\ guiUp
    /\ guiRequests < MaxRequests
    /\ guiRequests' = guiRequests + 1
    /\ guiReq.op = "none"
    /\ \E id \in {guiHeap[r].id : r \in Range(guiQueue)} \cup {UnknownId} :
         guiReq' = [op |-> "delete",
                    list |-> SelectSeq(guiQueue, LAMBDA r : guiHeap[r].id # id),
                    drop |-> {id}, len |-> Len(guiQueue), ref |-> 0, content |-> ""]
    /\ UNCHANGED <<guiUp, guiHeap, guiQueue, guiFile, guiDb, guiProcessing, guiWorkers, guiNow, guiFaults, guiAccepted>>
    /\ UNCHANGED <<guiData, guiReply>>
    /\ UNCHANGED <<cliVars, stVars, fmVars, toolVars>>

\* delete_task: self.queue = <the new list>; when it is shorter than
\* initial_len, save_queue and return True, else return False.
GUIDeleteAssign ==
    /\ guiReq.op = "delete"
    /\ guiQueue' = guiReq.list
    /\ guiHeap' = Collect(guiHeap, guiQueue', guiWorkers)
    /\ IF Len(guiQueue') < guiReq.len
       THEN /\ guiFile' = SnapshotOf([i \in 1..Len(guiQueue') |-> guiHeap[guiQueue'[i]]])
            /\ guiReply' = Reply("delete_task", CHOOSE id \in guiReq.drop : TRUE, TRUE)
       ELSE /\ guiFile' = guiFile
            /\ guiReply' = Reply("delete_task", CHOOSE id \in guiReq.drop : TRUE, FALSE)
    /\ guiAccepted' = {id \in guiAccepted : \E i \in 1..Len(guiQueue') : guiHeap[guiQueue'[i]].id = id}
    /\ guiReq' = NoRequest
    /\ UNCHANGED <<guiUp, guiDb, guiProcessing, guiWorkers, guiNow, guiFaults, guiRequests>>
    /\ UNCHANGED guiData
    /\ UNCHANGED <<cliVars, stVars, fmVars, toolVars>>

\* An update_task that goes on whatever the status of the task it found.
GUIUpdateAnyStatus ==
    /\ guiUp
    /\ guiRequests < MaxRequests
    /\ guiRequests' = guiRequests + 1
    /\ guiReq.op = "none"
    /\ \E id \in {guiHeap[r].id : r \in Range(guiQueue)} \cup {UnknownId}, c \in GUIContentInputs :
         LET found == {i \in 1..Len(guiQueue) :
                         /\ guiHeap[guiQueue[i]].id = id
                         /\ \A j \in 1..(i - 1) : guiHeap[guiQueue[j]].id # id}
         IN  IF found # {}
             THEN /\ guiReq' = [op |-> "update", list |-> guiQueue, drop |-> {}, len |-> 0,
                                ref |-> guiQueue[CHOOSE i \in found : TRUE], content |-> c]
                  /\ guiReply' = guiReply
             ELSE /\ guiReq' = guiReq
                  /\ guiReply' = Reply("update_task", id, FALSE)
    /\ UNCHANGED <<guiUp, guiHeap, guiQueue, guiFile, guiDb, guiProcessing, guiWorkers, guiNow, guiFaults, guiAccepted>>
    /\ UNCHANGED guiData
    /\ UNCHANGED <<cliVars, stVars, fmVars, toolVars>>

\* update_task(task_id, content, None), for the id of a task of the queue
\* or an unknown id: the first task with that id is looked up and its
\* status tested; return False when there is none or it is not pending.
GUIUpdateTask ==
    /\ guiUp
    /\ guiRequests < MaxRequests
    /\ guiRequests' = guiRequests + 1
    /\ guiReq.op = "none"
    /\ \E id \in {guiHeap[r].id : r \in Range(guiQueue)} \cup {UnknownId}, c \in GUIContentInputs :
         LET found == {i \in 1..Len(guiQueue) :
                         /\ guiHeap[guiQueue[i]].id = id
                         /\ \A j \in 1..(i - 1) : guiHeap[guiQueue[j]].id # id}
         IN  IF \E i \in found : guiHeap[guiQueue[i]].status = PENDING
             THEN /\ guiReq' = [op |-> "update", list |-> guiQueue, drop |-> {}, len |-> 0,
                                ref |-> guiQueue[CHOOSE i \in found : TRUE], content |-> c]
                  /\ guiReply' = guiReply
             ELSE /\ guiReq' = guiReq
                  /\ guiReply' = Reply("update_task", id, FALSE)
    /\ UNCHANGED <<guiUp, guiHeap, guiQueue, guiFile, guiDb, guiProcessing, guiWorkers, guiNow, guiFaults, guiAccepted>>
    /\ UNCHANGED guiData
    /\ UNCHANGED <<cliVars, stVars, fmVars, toolVars>>

\* update_task: task.content = content, task.updated_at = now, save_queue,
\* save_to_db, return True.
GUIUpdateAssign ==
    /\ guiReq.op = "update"
    /\ LET r == guiReq.ref IN
       /\ guiHeap' = Collect([guiHeap EXCEPT ![r].content = guiReq.content, ![r].updated_at = guiNow],
                             guiQueue, guiWorkers)
       /\ guiFile' = SnapshotOf([j \in 1..Len(guiQueue) |-> guiHeap'[guiQueue[j]]])
       /\ guiDb' = Upsert(guiDb, GUIRowOf([guiHeap[r] EXCEPT !.content = guiReq.content, !.updated_at = guiNow], guiNow))
    /\ guiReply' = Reply("update_task", guiHeap[guiReq.ref].id, TRUE)
    /\ guiReq' = NoRequest
    /\ UNCHANGED <<guiUp, guiQueue, guiProcessing, guiWorkers, guiNow, guiFaults, guiRequests, guiAccepted>>
    /\ UNCHANGED guiData
    /\ UNCHANGED <<cliVars, stVars, fmVars, toolVars>>

\* The server process is killed: threads and memory are gone.
GUIKill ==
    /\ guiUp
    /\ guiFaults < MaxFaults
    /\ guiFaults' = guiFaults + 1
    /\ guiUp' = FALSE
    /\ guiHeap' = << >>
    /\ guiQueue' = << >>
    /\ guiProcessing' = FALSE
    /\ guiWorkers' = [w \in Workers |-> NoWorker]
    /\ UNCHANGED <<guiFile, guiDb, guiNow, guiAccepted, guiRequests>>
    /\ guiReq' = NoRequest
    /\ guiData' = NoData
    /\ guiReply' = NoReply
    /\ UNCHANGED <<cliVars, stVars, fmVars, toolVars>>

\* The server process is killed inside save_queue, after open(..., 'w')
\* truncated the file and before json.dump completed.
GUIKillInSave ==
    /\ guiUp
    /\ guiFaults < MaxFaults
    /\ guiFaults' = guiFaults + 1
    /\ guiFile' = TornFile
    /\ guiUp' = FALSE
    /\ guiHeap' = << >>
    /\ guiQueue' = << >>
    /\ guiProcessing' = FALSE
    /\ guiWorkers' = [w \in Workers |-> NoWorker]
    /\ UNCHANGED <<guiDb, guiNow, guiAccepted, guiRequests>>
    /\ guiReq' = NoRequest
    /\ guiData' = NoData
    /\ guiReply' = NoReply
    /\ UNCHANGED <<cliVars, stVars, fmVars, toolVars>>

GUITick ==
    /\ guiNow < MaxClock
    /\ guiNow' = guiNow + 1
    /\ UNCHANGED <<guiUp, guiHeap, guiQueue, guiFile, guiDb, guiProcessing, guiWorkers, guiFaults, guiRequests, guiAccepted>>
    /\ UNCHANGED <<guiReq, guiData, guiReply>>
    /\ UNCHANGED <<cliVars, stVars, fmVars, toolVars>>

GUIWorkerNext ==
    \E w \in Workers :
      \/ GUIWorkerExit(w)
      \/ GUIWorkerPick(w)
      \/ GUIWorkerNoPending(w)
      \/ GUIWorkerHalt(w)
      \/ GUIWorkerBegin(w)
      \/ GUIWorkerStep(w)
      \/ GUIWorkerRaise(w)
      \/ GUIWorkerFinish(w)
      \/ GUIWorkerPersist(w)
      \/ GUIWorkerPersistRaises(w)
      \/ GUIWorkerWrite(w)
      \/ GUIWorkerWake(w)

GUINext ==
    \/ GUIBoot
    \/ GUIAddTask
    \/ GUIStart
    \/ GUIStop
    \/ GUIWorkerNext
    \/ GUIClearCompleted
    \/ GUIClearAssign
    \/ GUIResetFailed
    \/ GUIDeleteTask
    \/ GUIDeleteAssign
    \/ GUIUpdateTask
    \/ GUIUpdateAssign
    \/ GUIKill
    \/ GUIKillInSave
    \/ GUITick

(***************************************************************************)
(* save_queue and load_queue of both engines, on their own.  stQueue is a  *)
(* queue in memory; the file is written from it by save_queue, or is a     *)
(* snapshot the engine did not write (another version, an editor); a new   *)
(* process then runs load_queue on the file.  stRaised says that the       *)
(* exception left load_queue, which ends the process with a traceback.     *)
(***************************************************************************)
StoredTask(type, status) ==
    [TaskInit(TaskDefaults(MkId(type, 0, ""), TaskType(type), "alpha", NoneVal, EmptyDict), 0)
       EXCEPT !.status = TaskStatus(status),
              !.results = IF status = "completed" THEN DictSet(EmptyDict, "processed", "llm text") ELSE @,
              !.error = IF status = "failed" THEN "API error: 500" ELSE @,
              !.retry_count = IF status = "failed" THEN 1 ELSE @]

StoredTasks == {StoredTask(ty, st) : ty \in {"search", "process"}, st \in {"pending", "completed", "failed"}}

SeqsUpTo(S, n) == UNION {[1..k -> S] : k \in 0..n}

\* Items as another writer may have left them: the variant strings need not
\* be ones this version knows.
ForeignItems ==
    {[TaskToDict(StoredTask("search", "pending")) EXCEPT !.type = ty, !.status = st] :
        ty \in {"search", "audio"}, st \in {"pending", "paused"}}

ForeignFiles == {[state |-> "ok", data |-> d] : d \in SeqsUpTo(ForeignItems, MaxStored) \ {<< >>}}

StoreIdle ==
    /\ stEngine = "cli"
    /\ stQueue = << >>
    /\ stFile = NoFile
    /\ stLoaded = << >>
    /\ stRaised = FALSE
    /\ stPc = "idle"
    /\ stNow = 0

StoreInit ==
    /\ stEngine \in {"cli", "gui"}
    /\ stQueue \in SeqsUpTo(StoredTasks, MaxStored)
    /\ stFile = NoFile
    /\ stLoaded = << >>
    /\ stRaised = FALSE
    /\ stPc = "memory"
    /\ stNow = 0

\* save_queue (the same code in both engines).
StoreSave ==
    /\ stPc = "memory"
    /\ stFile' = SnapshotOf(stQueue)
    /\ stPc' = "saved"
    /\ UNCHANGED <<stEngine, stQueue, stLoaded, stRaised, stNow>>
    /\ UNCHANGED <<cliVars, guiVars, fmVars, toolVars>>

\* The file is replaced by a snapshot this process did not write.
StoreForeign ==
    /\ stPc = "memory"
    /\ stQueue = << >>
    /\ stFile' \in ForeignFiles
    /\ stPc' = "foreign"
    /\ UNCHANGED <<stEngine, stQueue, stLoaded, stRaised, stNow>>
    /\ UNCHANGED <<cliVars, guiVars, fmVars, toolVars>>

\* UniversalTaskProcessor.load_queue in a new process: an exception leaves it.
StoreCLILoad ==
    /\ stEngine = "cli"
    /\ stPc \in {"saved", "foreign"}
    /\ IF CLILoadable(stFile)
       THEN stLoaded' = CLILoadQueue(stFile, stNow) /\ stRaised' = FALSE
       ELSE stLoaded' = << >> /\ stRaised' = TRUE
    /\ stPc' = IF stPc = "saved" THEN "reloaded" ELSE "read"
    /\ UNCHANGED <<stEngine, stQueue, stFile, stNow>>
    /\ UNCHANGED <<cliVars, guiVars, fmVars, toolVars>>

\* TaskProcessor.load_queue in a new process: no exception leaves it.
StoreGUILoad ==
    /\ stEngine = "gui"
    /\ stPc \in {"saved", "foreign"}
    /\ stLoaded' = GUILoadQueue(stFile, stNow)
    /\ stRaised' = FALSE
    /\ stPc' = IF stPc = "saved" THEN "reloaded" ELSE "read"
    /\ UNCHANGED <<stEngine, stQueue, stFile, stNow>>
    /\ UNCHANGED <<cliVars, guiVars, fmVars, toolVars>>

StoreTick ==
    /\ stPc \in {"saved", "foreign"}
    /\ stNow < MaxClock
    /\ stNow' = stNow + 1
    /\ UNCHANGED <<stEngine, stQueue, stFile, stLoaded, stRaised, stPc>>
    /\ UNCHANGED <<cliVars, guiVars, fmVars, toolVars>>

StoreNext ==
    \/ StoreSave
    \/ StoreForeign
    \/ StoreCLILoad
    \/ StoreGUILoad
    \/ StoreTick

(***************************************************************************)
(* UniversalTaskProcessor.format_prompt.  A text is a sequence of          *)
(* characters.  The words of the placeholders are written with one         *)
(* character each: "c" for content, "i" for task_id, "_" for _result; "s"  *)
(* is the name of a step, "m" a metadata key, "u" a name nothing has.      *)
(***************************************************************************)
MaxPieces == 3
MaxBracePieces == 5

Placeholder(name) == <<"{">> \o name \o <<"}">>

ContentName == <<"c">>

TaskIdName == <<"i">>

ResultSuffix == <<"_">>

\* old occurs in s at position i
OccursAt(s, old, i) ==
    /\ i + Len(old) - 1 <= Len(s)
    /\ \A k \in 1..Len(old) : s[i + k - 1] = old[k]

\* placeholder in prompt
Occurs(s, old) == \E i \in 1..Len(s) : OccursAt(s, old, i)

\* str.replace(old, new) for a non-empty old: the occurrences are taken
\* from the left, without overlap, in one pass.
RECURSIVE ReplaceFrom(_, _, _, _)
ReplaceFrom(s, old, new, i) ==
    IF i > Len(s) THEN << >>
    ELSE IF OccursAt(s, old, i) THEN new \o ReplaceFrom(s, old, new, i + Len(old))
    ELSE <<s[i]>> \o ReplaceFrom(s, old, new, i + 1)

StrReplace(s, old, new) == ReplaceFrom(s, old, new, 1)

\* re.findall(r'\{[^}]+\}', prompt): from the left, a "{", one character
\* or more that are not "}", and the first "}" after them; the search
\* goes on behind a match.
RECURSIVE FindAllFrom(_, _)
FindAllFrom(s, i) ==
    IF i > Len(s) THEN << >>
    ELSE IF s[i] = "{" /\ \E j \in (i + 2)..Len(s) : s[j] = "}" /\ s[i + 1] # "}"
    THEN LET j == CHOOSE j \in (i + 2)..Len(s) :
                    s[j] = "}" /\ \A k \in (i + 1)..(j - 1) : s[k] # "}"
         IN  <<SubSeq(s, i, j)>> \o FindAllFrom(s, j + 1)
    ELSE FindAllFrom(s, i + 1)

FindAll(s) == FindAllFrom(s, 1)

\* for result_key, result_value in task.results.items(): the placeholder
\* with the suffix takes str(value), the one without it the formatted
\* value.
RECURSIVE ReplaceResults(_, _, _)
ReplaceResults(prompt, results, n) ==
    IF n > Len(results) THEN prompt
    ELSE LET key == results[n].k
             value == results[n].v
             suffixed == StrReplace(prompt, Placeholder(key \o ResultSuffix), value.str)
         IN  ReplaceResults(StrReplace(suffixed, Placeholder(key), value.formatted),
                            results, n + 1)

\* for meta_key, meta_value in task.metadata.items()
RECURSIVE ReplaceMetadata(_, _, _)
ReplaceMetadata(prompt, metadata, n) ==
    IF n > Len(metadata) THEN prompt
    ELSE ReplaceMetadata(StrReplace(prompt, Placeholder(metadata[n].k), metadata[n].v),
                         metadata, n + 1)

\* for placeholder in remaining_placeholders: prompt.replace(placeholder, '')
RECURSIVE RemoveEach(_, _, _)
RemoveEach(prompt, placeholders, n) ==
    IF n > Len(placeholders) THEN prompt
    ELSE RemoveEach(StrReplace(prompt, placeholders[n], << >>), placeholders, n + 1)

Returned(text) == [raised |-> FALSE, text |-> text]

\* A content that is not a str (the JSON number 42 of a POST /add_task),
\* kept as a sequence like the texts.
NumberValue == <<NumberContent>>

IsText(value) == value # NumberValue

\* TypeError of str.replace when task.content is not a string.
Raised == [raised |-> TRUE, text |-> << >>]

format_prompt(template, task) ==
    IF template = << >> THEN Returned(<< >>)
    ELSE IF ~IsText(task.content) THEN Raised
    ELSE LET p1 == StrReplace(template, Placeholder(ContentName), task.content)
             p2 == StrReplace(p1, Placeholder(TaskIdName), task.id)
             p3 == ReplaceResults(p2, task.results, 1)
             p4 == ReplaceMetadata(p3, task.metadata, 1)
         IN  Returned(RemoveEach(p4, FindAll(p4), 1))

\* The texts templates are made of.
TemplatePieces ==
    { Placeholder(ContentName), Placeholder(TaskIdName), Placeholder(<<"s">>),
      Placeholder(<<"s">> \o ResultSuffix), Placeholder(<<"m">>), Placeholder(<<"u">>),
      <<"x">>, <<"{">>, <<"}">> }

BracePieces == { Placeholder(<<"u">>), <<"x">>, <<"{">>, <<"}">> }

RECURSIVE Flatten(_)
Flatten(pieces) == IF pieces = << >> THEN << >> ELSE Head(pieces) \o Flatten(Tail(pieces))

TemplatesOver(pieces, n) == {Flatten(ps) : ps \in SeqsUpTo(pieces, n)}

\* A result is a text, or a dict, whose str() and json.dumps() differ and
\* are both written in braces.
TextValue(text) == [str |-> text, formatted |-> text]

DictValue ==
    [str |-> <<"{", "'", "d", "'", "}">>, formatted |-> <<"{", "\"", "d", "\"", "}">>]

\* A list of one text: str() writes the brackets and the quotes, the join
\* of the elements does not.
ListValue == [str |-> <<"[", "'", "a", "'", "]">>, formatted |-> <<"a">>]

FormatContents == { <<"a">>, Placeholder(TaskIdName), Placeholder(<<"u">>), NumberValue }

FormatResults ==
    { EmptyDict,
      <<[k |-> <<"s">>, v |-> TextValue(<<"r">>)]>>,
      <<[k |-> <<"s">>, v |-> TextValue(Placeholder(<<"m">>))]>>,
      <<[k |-> <<"s">>, v |-> DictValue]>>,
      <<[k |-> <<"s">>, v |-> ListValue]>> }

FormatMetadata == { EmptyDict, <<[k |-> <<"m">>, v |-> <<"v">>]>> }

FormatTasks ==
    { [content |-> c, id |-> <<"7">>, results |-> r, metadata |-> m] :
        c \in FormatContents, r \in FormatResults, m \in FormatMetadata }

PlainTask == [content |-> <<"a">>, id |-> <<"7">>, results |-> EmptyDict, metadata |-> EmptyDict]

NotCalled == [raised |-> FALSE, text |-> <<"<", ">">>]

FormatIdle ==
    /\ fmTemplate = << >>
    /\ fmTask = PlainTask
    /\ fmOut = NotCalled
    /\ fmPc = "idle"

FormatInit ==
    /\ \/ fmTemplate \in TemplatesOver(TemplatePieces, MaxPieces) /\ fmTask \in FormatTasks
       \/ fmTemplate \in TemplatesOver(BracePieces, MaxBracePieces) /\ fmTask = PlainTask
    /\ fmOut = NotCalled
    /\ fmPc = "call"

\* prompt = self.format_prompt(prompt_template, task)
FormatPrompt ==
    /\ fmPc = "call"
    /\ fmOut' = format_prompt(fmTemplate, fmTask)
    /\ fmPc' = "done"
    /\ UNCHANGED <<fmTemplate, fmTask>>
    /\ UNCHANGED <<cliVars, guiVars, stVars, toolVars>>

FormatNext ==
    \/ FormatPrompt


(***************************************************************************)
(* BackupManager (backup_manager.py).  A backup directory is named         *)
(* backup_<timestamp> with a timestamp of fixed width, so the names sort   *)
(* as the timestamps do; a directory is written here as its timestamp.     *)
(***************************************************************************)
MaxOld == 3
MaxBackupClock == 3
MaxKeep == 3

\* sorted(self.backup_dir.glob("backup_*"))
RECURSIVE SortedNames(_)
SortedNames(names) ==
    IF names = {} THEN << >>
    ELSE LET first == CHOOSE n \in names : \A other \in names : n <= other
         IN  <<first>> \o SortedNames(names \ {first})

\* A rotation that deletes from the wrong end: backups[max_backups:].
ToDeleteNewest(backups, max_backups) ==
    IF Len(backups) > max_backups
    THEN SubSeq(backups, max_backups + 1, Len(backups))
    ELSE << >>

\* to_delete = backups[:len(backups) - self.max_backups], inside the test
\* len(backups) > self.max_backups
ToDelete(backups, max_backups) ==
    IF Len(backups) > max_backups
    THEN SubSeq(backups, 1, Len(backups) - max_backups)
    ELSE << >>

\* What rotate_backups leaves of the directories it finds.
Rotated(names, max_backups) == names \ Range(ToDelete(SortedNames(names), max_backups))

\* create_backup: the directory is made first; the call returns the name,
\* or None when anything after or before the mkdir raised.
CreateOutcomes == {"created", "failed", "failed early"}

Created(names, now, outcome) == IF outcome = "failed early" THEN names ELSE names \cup {now}

BackupCall(op, before) == [op |-> op, before |-> before]

BackupIdle ==
    /\ bkDirs = {}
    /\ bkMax = 0
    /\ bkNow = 0
    /\ bkDone = BackupCall("none", {})

\* BackupManager(): backup_dir may hold backups of earlier runs, and
\* max_backups is read from MAX_BACKUPS.
BackupInit ==
    /\ bkDirs \in SUBSET (1..MaxOld)
    /\ bkMax \in 0..MaxKeep
    /\ bkNow = MaxOld
    /\ bkDone = BackupCall("none", {})

\* main: action 'create'
BackupCreate ==
    /\ \E outcome \in CreateOutcomes : bkDirs' = Created(bkDirs, bkNow, outcome)
    /\ bkDone' = BackupCall("create", bkDirs)
    /\ UNCHANGED <<bkMax, bkNow>>
    /\ UNCHANGED <<cliVars, guiVars, stVars, fmVars>>
    /\ UNCHANGED <<rqVars, mcVars>>

\* main: action 'rotate'
BackupRotate ==
    /\ bkDirs' = Rotated(bkDirs, bkMax)
    /\ bkDone' = BackupCall("rotate", bkDirs)
    /\ UNCHANGED <<bkMax, bkNow>>
    /\ UNCHANGED <<cliVars, guiVars, stVars, fmVars>>
    /\ UNCHANGED <<rqVars, mcVars>>

\* One round of run_scheduled_backup: create_backup, and rotate_backups
\* when it returned a name.
BackupScheduled ==
    /\ \E outcome \in CreateOutcomes :
         LET made == Created(bkDirs, bkNow, outcome)
         IN  IF outcome = "created"
             THEN /\ bkDirs' = Rotated(made, bkMax)
                  /\ bkDone' = BackupCall("rotate", made)
             ELSE /\ bkDirs' = made
                  /\ bkDone' = BackupCall("create", bkDirs)
    /\ UNCHANGED <<bkMax, bkNow>>
    /\ UNCHANGED <<cliVars, guiVars, stVars, fmVars>>
    /\ UNCHANGED <<rqVars, mcVars>>

\* time.sleep(self.backup_interval), or the time between two commands
BackupTick ==
    /\ bkNow < MaxOld + MaxBackupClock
    /\ bkNow' = bkNow + 1
    /\ UNCHANGED <<bkDirs, bkMax, bkDone>>
    /\ UNCHANGED <<cliVars, guiVars, stVars, fmVars>>
    /\ UNCHANGED <<rqVars, mcVars>>

BackupNext ==
    \/ BackupCreate
    \/ BackupRotate
    \/ BackupScheduled
    \/ BackupTick

(***************************************************************************)
(* MCPHTTPClient._request (mcp_http_client.py).  rqTrace is what each      *)
(* call of session.request gave, in order; rqPc is "call" at the entry,    *)
(* "loop" inside the for loop, "returned" after the return.                *)
(***************************************************************************)
MaxAttempts == 4

Methods == {"GET", "POST"}

\* What the caller passes as url.
Urls == {"http://", "ftp://", "<None>"}

StatusCodes == {200, 404, 500}

NoResult == [status |-> "none", status_code |-> 0, success |-> FALSE, raised |-> FALSE]

\* The result built from a response.
ResponseResult(status_code) ==
    [status |-> "success", status_code |-> status_code, success |-> status_code < 400,
     raised |-> FALSE]

\* The three error returns.
ErrorResult == [status |-> "error", status_code |-> 0, success |-> FALSE, raised |-> FALSE]

Attempt(kind, status_code) == [kind |-> kind, status_code |-> status_code]

RequestIdle ==
    /\ rqMax = 0
    /\ rqMethod = "GET"
    /\ rqPc = "idle"
    /\ rqTrace = << >>
    /\ rqResult = NoResult

\* MCPHTTPClient(max_retries=...) and a call of get / post.
RequestInit ==
    /\ rqMax \in 0..MaxAttempts
    /\ rqMethod \in Methods
    /\ rqPc = "call"
    /\ rqTrace = << >>
    /\ rqResult = NoResult

\* if not url.startswith(('http://', 'https://')); a url that is not a str
\* raises there and the outer except returns the error.
RequestValidate ==
    /\ rqPc = "call"
    /\ \E url \in Urls :
         IF url = "http://"
         THEN rqPc' = "loop" /\ rqResult' = rqResult
         ELSE rqPc' = "returned" /\ rqResult' = ErrorResult
    /\ UNCHANGED <<rqMax, rqMethod, rqTrace>>
    /\ UNCHANGED <<cliVars, guiVars, stVars, fmVars>>
    /\ UNCHANGED <<bkVars, mcVars>>

\* response = self.session.request(...); ...; return result
RequestResponse ==
    /\ rqPc = "loop"
    /\ Len(rqTrace) < rqMax
    /\ \E status_code \in StatusCodes :
         /\ rqTrace' = Append(rqTrace, Attempt("response", status_code))
         /\ rqResult' = ResponseResult(status_code)
    /\ rqPc' = "returned"
    /\ UNCHANGED <<rqMax, rqMethod>>
    /\ UNCHANGED <<cliVars, guiVars, stVars, fmVars>>
    /\ UNCHANGED <<bkVars, mcVars>>

\* except requests.exceptions.Timeout: the loop goes on
RequestTimeout ==
    /\ rqPc = "loop"
    /\ Len(rqTrace) < rqMax
    /\ rqTrace' = Append(rqTrace, Attempt("timeout", 0))
    /\ UNCHANGED <<rqMax, rqMethod, rqPc, rqResult>>
    /\ UNCHANGED <<cliVars, guiVars, stVars, fmVars>>
    /\ UNCHANGED <<bkVars, mcVars>>

\* except requests.exceptions.ConnectionError: the loop goes on
RequestConnectionError ==
    /\ rqPc = "loop"
    /\ Len(rqTrace) < rqMax
    /\ rqTrace' = Append(rqTrace, Attempt("connection error", 0))
    /\ UNCHANGED <<rqMax, rqMethod, rqPc, rqResult>>
    /\ UNCHANGED <<cliVars, guiVars, stVars, fmVars>>
    /\ UNCHANGED <<bkVars, mcVars>>

\* The same handler without its break.
RequestErrorRetried ==
    /\ rqPc = "loop"
    /\ Len(rqTrace) < rqMax
    /\ rqTrace' = Append(rqTrace, Attempt("request error", 0))
    /\ UNCHANGED <<rqMax, rqMethod, rqPc, rqResult>>
    /\ UNCHANGED <<cliVars, guiVars, stVars, fmVars>>
    /\ UNCHANGED <<bkVars, mcVars>>

\* except requests.exceptions.RequestException: break, and the return
\* behind the loop
RequestOtherError ==
    /\ rqPc = "loop"
    /\ Len(rqTrace) < rqMax
    /\ rqTrace' = Append(rqTrace, Attempt("request error", 0))
    /\ rqResult' = ErrorResult
    /\ rqPc' = "returned"
    /\ UNCHANGED <<rqMax, rqMethod>>
    /\ UNCHANGED <<cliVars, guiVars, stVars, fmVars>>
    /\ UNCHANGED <<bkVars, mcVars>>

\* Any other exception of session.request leaves the loop for the outer
\* except Exception.
RequestClientError ==
    /\ rqPc = "loop"
    /\ Len(rqTrace) < rqMax
    /\ rqTrace' = Append(rqTrace, Attempt("client error", 0))
    /\ rqResult' = ErrorResult
    /\ rqPc' = "returned"
    /\ UNCHANGED <<rqMax, rqMethod>>
    /\ UNCHANGED <<cliVars, guiVars, stVars, fmVars>>
    /\ UNCHANGED <<bkVars, mcVars>>

\* range(self.max_retries) is used up: the return behind the loop
RequestExhausted ==
    /\ rqPc = "loop"
    /\ Len(rqTrace) >= rqMax
    /\ rqResult' = ErrorResult
    /\ rqPc' = "returned"
    /\ UNCHANGED <<rqMax, rqMethod, rqTrace>>
    /\ UNCHANGED <<cliVars, guiVars, stVars, fmVars>>
    /\ UNCHANGED <<bkVars, mcVars>>

RequestNext ==
    \/ RequestValidate
    \/ RequestResponse
    \/ RequestTimeout
    \/ RequestConnectionError
    \/ RequestOtherError
    \/ RequestClientError
    \/ RequestExhausted

(***************************************************************************)
(* MCPManager (mcp_manager.py).  mcServers is self.servers, a mapping from *)
(* the configured names to their MCPServerInfo; mcInstances is the set of  *)
(* keys of self.server_instances.                                          *)
(***************************************************************************)
MaxManagerClock == 2

\* "json-parser" is an internal server the manager knows, "custom" an
\* internal one it does not know, "remote" an external one.
ServerNames == {"json-parser", "custom", "remote"}

UnknownServer == "unknown"

\* Tools asked for: a method that returns, a method that raises, and a
\* name the instance has no attribute for.
ToolNames == {"parse", "broken", "absent"}

ServerType(name) == IF name = "remote" THEN "external" ELSE "internal"

\* mcp_config.json: the servers it names, each enabled or not; the empty
\* mapping also stands for a file that is missing or does not parse.
ConfigFiles == UNION {[names -> BOOLEAN] : names \in SUBSET ServerNames}

MCPServerInfo(name, enabled, status, last_used) ==
    [name |-> name, enabled |-> enabled, type |-> ServerType(name), status |-> status,
     last_used |-> last_used]

\* load_config followed by initialize_servers; imports tells whether the
\* import and the constructor of an internal server go through.
LoadedServers(config, imports) ==
    [name \in DOMAIN config |->
        MCPServerInfo(name, config[name],
                      IF config[name] /\ name = "json-parser"
                      THEN (IF imports THEN "running" ELSE "error")
                      ELSE "stopped",
                      NoTime)]

LoadedInstances(config, imports) ==
    {name \in DOMAIN config : config[name] /\ name = "json-parser" /\ imports}

ToolResult(status, invoked, servers) == [status |-> status, invoked |-> invoked, servers |-> servers]

\* execute_tool, with the last_used stamp moved in front of the checks.
execute_tool_stamping_first(servers, instances, server_name, tool_name, now) ==
    IF server_name \notin DOMAIN servers THEN ToolResult("error", FALSE, servers)
    ELSE LET used == [servers EXCEPT ![server_name].last_used = now]
         IN  IF ~servers[server_name].enabled THEN ToolResult("error", FALSE, used)
             ELSE IF servers[server_name].status # "running" THEN ToolResult("error", FALSE, used)
             ELSE IF server_name \notin instances THEN ToolResult("error", FALSE, used)
             ELSE IF tool_name = "absent" THEN ToolResult("error", FALSE, used)
             ELSE IF tool_name = "broken" THEN ToolResult("error", TRUE, used)
             ELSE ToolResult("success", TRUE, used)

execute_tool(servers, instances, server_name, tool_name, now) ==
    IF server_name \notin DOMAIN servers THEN ToolResult("error", FALSE, servers)
    ELSE IF ~servers[server_name].enabled THEN ToolResult("error", FALSE, servers)
    ELSE IF servers[server_name].status # "running" THEN ToolResult("error", FALSE, servers)
    ELSE IF server_name \notin instances THEN ToolResult("error", FALSE, servers)
    ELSE LET used == [servers EXCEPT ![server_name].last_used = now]
         IN  IF tool_name = "absent" THEN ToolResult("error", FALSE, used)
             ELSE IF tool_name = "broken" THEN ToolResult("error", TRUE, used)
             ELSE ToolResult("success", TRUE, used)

ManagerCall(op, server_name, tool_name, servers, instances, result) ==
    [op |-> op, server_name |-> server_name, tool_name |-> tool_name, servers |-> servers,
     instances |-> instances, status |-> result.status, invoked |-> result.invoked]

NoCall ==
    ManagerCall("none", UnknownServer, "absent", << >>, {}, ToolResult("none", FALSE, << >>))

ManagerIdle ==
    /\ mcServers = << >>
    /\ mcInstances = {}
    /\ mcNow = 0
    /\ mcDone = NoCall

\* MCPManager(config_path)
ManagerInit ==
    /\ \E config \in ConfigFiles, imports \in BOOLEAN :
         /\ mcServers = LoadedServers(config, imports)
         /\ mcInstances = LoadedInstances(config, imports)
    /\ mcNow = 0
    /\ mcDone = NoCall

ManagerExecuteTool ==
    /\ \E server_name \in ServerNames \cup {UnknownServer}, tool_name \in ToolNames :
         LET result == execute_tool(mcServers, mcInstances, server_name, tool_name, mcNow)
         IN  /\ mcServers' = result.servers
             /\ mcDone' = ManagerCall("execute_tool", server_name, tool_name, mcServers,
                                      mcInstances, result)
    /\ UNCHANGED <<mcInstances, mcNow>>
    /\ UNCHANGED <<cliVars, guiVars, stVars, fmVars>>
    /\ UNCHANGED <<bkVars, rqVars>>

\* shutdown: self.server_instances.clear(); self.servers is left as it is
ManagerShutdown ==
    /\ mcInstances' = {}
    /\ mcDone' = NoCall
    /\ UNCHANGED <<mcServers, mcNow>>
    /\ UNCHANGED <<cliVars, guiVars, stVars, fmVars>>
    /\ UNCHANGED <<bkVars, rqVars>>

\* reload_config: shutdown, servers.clear(), load_config, initialize_servers
ManagerReloadConfig ==
    /\ \E config \in ConfigFiles, imports \in BOOLEAN :
         /\ mcServers' = LoadedServers(config, imports)
         /\ mcInstances' = LoadedInstances(config, imports)
    /\ mcDone' = NoCall
    /\ UNCHANGED mcNow
    /\ UNCHANGED <<cliVars, guiVars, stVars, fmVars>>
    /\ UNCHANGED <<bkVars, rqVars>>

\* datetime.now() moves on
ManagerTick ==
    /\ mcNow < MaxManagerClock
    /\ mcNow' = mcNow + 1
    /\ UNCHANGED <<mcServers, mcInstances, mcDone>>
    /\ UNCHANGED <<cliVars, guiVars, stVars, fmVars>>
    /\ UNCHANGED <<bkVars, rqVars>>

ManagerNext ==
    \/ ManagerExecuteTool
    \/ ManagerShutdown
    \/ ManagerReloadConfig
    \/ ManagerTick

ToolsIdle == BackupIdle /\ RequestIdle /\ ManagerIdle

vars == <<cliVars, guiVars, stVars, fmVars, toolVars>>

InitCLI == CLIInit /\ GUIInit /\ StoreIdle /\ FormatIdle /\ ToolsIdle

InitGUI == GUIInit /\ CLIInit /\ StoreIdle /\ FormatIdle /\ ToolsIdle

InitStore == StoreInit /\ CLIInit /\ GUIInit /\ FormatIdle /\ ToolsIdle

InitFormat == FormatInit /\ CLIInit /\ GUIInit /\ StoreIdle /\ ToolsIdle

InitBackup ==
    BackupInit /\ CLIInit /\ GUIInit /\ StoreIdle /\ FormatIdle /\ RequestIdle /\ ManagerIdle

InitRequest ==
    RequestInit /\ CLIInit /\ GUIInit /\ StoreIdle /\ FormatIdle /\ BackupIdle /\ ManagerIdle

InitManager ==
    ManagerInit /\ CLIInit /\ GUIInit /\ StoreIdle /\ FormatIdle /\ BackupIdle /\ RequestIdle

SpecCLI == InitCLI /\ [][CLINext]_vars

SpecGUI == InitGUI /\ [][GUINext]_vars

SpecStore == InitStore /\ [][StoreNext]_vars

SpecFormat == InitFormat /\ [][FormatNext]_vars

SpecBackup == InitBackup /\ [][BackupNext]_vars

SpecRequest == InitRequest /\ [][RequestNext]_vars

SpecManager == InitManager /\ [][ManagerNext]_vars

(***************************************************************************)
(* Properties of UniversalTaskProcessor (SpecCLI).                         *)
(***************************************************************************)

\* A failing run of the task at cliIdx: the except branch of process_task
\* has just been taken.
CLIFailingRun ==
    /\ cliPc = "task"
    /\ cliPc' = "after"
    /\ cliQueue'[cliIdx].retry_count = cliQueue[cliIdx].retry_count + 1

\* C2 (as the code has it): with max_retries = 3, in UniversalTaskProcessor
\* the first and the second failing attempt of a task leave it Retrying and
\* the third (and any later one) leaves it Failed, each time with error
\* equal to the message of the exception just raised.
RetryingTwiceThenFailed ==
    [][CLIFailingRun =>
         /\ cliQueue'[cliIdx].status =
              IF cliQueue'[cliIdx].retry_count \in {1, 2} THEN RETRYING ELSE FAILED
         /\ cliQueue'[cliIdx].error \in ExceptionMessages(CLICurrentSteps[cliStep])]_vars

\* C2 (as stated): Retrying after each of the first three failing attempts,
\* Failed only on the fourth.
RetryingThriceThenFailed ==
    [][CLIFailingRun =>
         cliQueue'[cliIdx].status =
           IF cliQueue'[cliIdx].retry_count \in {1, 2, 3} THEN RETRYING ELSE FAILED]_vars

\* C2: a task has failed three times, the last time in another step than
\* the first, and is Failed with the last message.
FailedOnThirdAttempt ==
    /\ cliPc = "after"
    /\ cliQueue[cliIdx].status = FAILED
    /\ cliQueue[cliIdx].retry_count = 3
    /\ cliQueue[cliIdx].error = "Permission denied"
    /\ \E r \in cliDb : r.id = cliQueue[cliIdx].id /\ r.error = "Permission denied"
                        /\ r.status = "failed"

\* C3: when run_batch returns and the process exits, no task is left in
\* Retrying: the engine itself took every such task back to Pending and
\* ran it to Completed or Failed.
NoRetryingLeftBehind ==
    [][(cliPc = "batch" /\ cliPc' = "down" /\ cliKills' = cliKills) =>
         \A i \in 1..Len(cliQueue) : cliQueue[i].status # RETRYING]_vars

\* C4: a task with status Completed has no error.
CompletedHasNoError ==
    \A i \in 1..Len(cliQueue) :
      cliQueue[i].status = COMPLETED => cliQueue[i].error = NoneVal

StepNames(steps, n) == [i \in 1..n |-> steps[i].name]

\* C5: during a run, after N steps went by without an exception the keys
\* of results are the names of the first N declared steps, in order.
ResultKeysAreStepNames ==
    cliPc = "task" =>
      DictKeys(cliQueue[cliIdx].results) = StepNames(CLICurrentSteps, cliStep - 1)

(***************************************************************************)
(* Properties of TaskProcessor (SpecGUI).                                  *)
(***************************************************************************)

\* C1: a failing run yields Failed exactly when it brings retry_count to
\* max_retries: never with retry_count below it, always with retry_count
\* equal to it.
FailedExactlyAtMaxRetries ==
    [][\A r \in 1..Len(guiHeap) :
          (Len(guiHeap') = Len(guiHeap) /\ guiHeap'[r].retry_count = guiHeap[r].retry_count + 1)
            => (guiHeap'[r].status = FAILED <=> guiHeap'[r].retry_count = MaxRetries)]_vars

\* C8: after a crash at any point and a restart, every task add_task
\* accepted (and no request removed) is in the reloaded queue.
AcceptedTasksSurviveRestart ==
    guiUp => \A id \in guiAccepted : \E i \in 1..Len(guiQueue) : guiHeap[guiQueue[i]].id = id

GUIQuiescent ==
    /\ guiUp
    /\ guiFaults = 0
    /\ guiReq.op = "none"
    /\ \A w \in Workers : guiWorkers[w].pc \in {"none", "loop", "sleep", "halting"}

\* C9: whenever a write of the snapshot leaves no operation in progress
\* (no crash so far), every task it wrote anew or changed in the snapshot
\* has a row in the tasks table with the same status, content, metadata,
\* results, error and retry_count.
SnapshotMatchesLog ==
    [][(guiUp /\ GUIQuiescent') =>
         \A i \in 1..Len(guiFile'.data) :
           guiFile'.data[i] \notin Range(guiFile.data) =>
             \E row \in guiDb' :
               /\ row.id = guiFile'.data[i].id
               /\ row.status = guiFile'.data[i].status
               /\ row.content = guiFile'.data[i].content
               /\ row.metadata = guiFile'.data[i].metadata
               /\ row.results = guiFile'.data[i].results
               /\ row.error = guiFile'.data[i].error
               /\ row.retry_count = guiFile'.data[i].retry_count]_vars

\* C10: at most one worker loop is alive, at most one task run is between
\* its first and its last statement, and no task is being run by two
\* workers.
OneWorkerAtATime ==
    /\ Cardinality({w \in Workers : guiWorkers[w].pc # "none"}) <= 1
    /\ Cardinality({w \in Workers : guiWorkers[w].pc \in {"running", "persist"}}) <= 1
    /\ \A v, w \in Workers :
         (v # w /\ guiWorkers[v].pc \in {"running", "persist"}
                /\ guiWorkers[w].pc \in {"running", "persist"})
           => guiWorkers[v].ref # guiWorkers[w].ref

\* C11: when clear_completed or delete_task replaces the list, every task
\* of the queue that the request does not remove (one appended meanwhile
\* by add_task included) is in the new queue and in the snapshot.
AssignKeepsOtherTasks ==
    [][(guiReq.op # "none" /\ guiReq'.op = "none" /\ guiUp') =>
         \A i \in 1..Len(guiQueue) :
           guiHeap[guiQueue[i]].id \notin guiReq.drop =>
             /\ guiQueue[i] \in Range(guiQueue')
             /\ \E k \in 1..Len(guiFile'.data) : guiFile'.data[k].id = guiHeap[guiQueue[i]].id]_vars

\* C12: once no operation is under way (and without a crash), the snapshot
\* on disk is the one of the in-memory queue as it is now.
SnapshotIsLatest ==
    GUIQuiescent => guiFile.data = SnapshotOf(GUIQueueTasks).data

(***************************************************************************)
(* Properties of the snapshot round trip (SpecStore).                      *)
(***************************************************************************)

\* C6: save_queue followed by load_queue gives back every task with all
\* its fields as they were saved.
LoadReturnsWhatWasSaved ==
    (stPc = "reloaded" /\ ~stRaised) => stLoaded = stQueue

\* C7: load_queue on a snapshot holding an unknown type or status string
\* ends with an exception; it does not return a queue.
UnknownVariantRaises ==
    (stPc = "read" /\ \E i \in 1..Len(stFile.data) : ~ItemValid(stFile.data[i]))
      => stRaised

\* ---------------------------------------------------------------------
\* Selection, stopping and status transitions.

\* C13: run_batch starts a run (process_task sets PROCESSING and enters the
\* step loop) only on a task whose status is Pending.
RunStartsOnPendingOnly ==
    [][(cliPc = "batch" /\ cliPc' = "task") =>
         cliQueue[cliIdx].status = PENDING]_vars

\* C14: when run_batch returns without having been stopped or killed, no
\* task of the queue is left Pending.
HaltsWithNoPendingLeft ==
    [][(cliPc = "batch" /\ cliPc' = "down" /\ cliKills' = cliKills /\ ~cliStop) =>
         \A i \in 1..Len(cliQueue) : cliQueue[i].status # PENDING]_vars

\* C15: a run in progress starts a further step (a step after its first)
\* only while the processing flag is set, that is, not after
\* stop_processing has cleared it.
NoFurtherStepAfterStop ==
    [][\A w \in Workers :
         (/\ guiWorkers[w].pc = "running"
          /\ guiWorkers[w].step >= 2
          /\ guiWorkers'[w].step = guiWorkers[w].step + 1) => guiProcessing]_vars

\* C16: in UniversalTaskProcessor the steps of a run change neither error
\* nor retry_count and keep the status Processing, and the return taken
\* when the stop event is found set before a step changes nothing at all:
\* the task stays Processing with the results stored so far.
CancelLeavesTaskProcessing ==
    [][/\ (cliPc = "task" /\ cliPc' = "task") =>
            /\ cliQueue'[cliIdx].status = PROCESSING
            /\ cliQueue'[cliIdx].error = cliQueue[cliIdx].error
            /\ cliQueue'[cliIdx].retry_count = cliQueue[cliIdx].retry_count
       /\ (cliPc = "task" /\ cliPc' = "after" /\ cliStop /\ cliStep <= Len(CLICurrentSteps)) =>
            /\ cliQueue' = cliQueue
            /\ cliQueue[cliIdx].status = PROCESSING]_vars

\* C16: a run of a task that failed before was stopped after it had stored
\* a result.
CancelledAfterAStep ==
    /\ cliPc = "after"
    /\ cliStop
    /\ cliQueue[cliIdx].config_name \in ConfigNames
    /\ cliStep >= 2
    /\ cliStep <= Len(CLICurrentSteps)
    /\ cliQueue[cliIdx].status = PROCESSING
    /\ cliQueue[cliIdx].results # EmptyDict
    /\ cliQueue[cliIdx].retry_count = 1
    /\ cliQueue[cliIdx].error # NoneVal

\* C17: a task of the queue that is Completed keeps its status and its
\* results for as long as it stays in the queue.
CompletedIsFinal ==
    [][\A r \in Range(guiQueue) \cap Range(guiQueue') :
         guiHeap[r].status = COMPLETED =>
           /\ guiHeap'[r].status = COMPLETED
           /\ guiHeap'[r].results = guiHeap[r].results]_vars

\* C18: every change of the status of a task of the queue during a batch
\* is one of Pending -> Processing, Processing -> Completed, Processing ->
\* Failed, Processing -> Retrying, Retrying -> Pending, Failed -> Pending.
OnlyAllowedTransitions ==
    [][(cliPc # "down" /\ cliPc' # "down" /\ Len(cliQueue') = Len(cliQueue)) =>
         \A i \in 1..Len(cliQueue) :
           \/ cliQueue'[i].status = cliQueue[i].status
           \/ <<cliQueue[i].status, cliQueue'[i].status>> \in
                { <<PENDING, PROCESSING>>, <<PROCESSING, COMPLETED>>,
                  <<PROCESSING, FAILED>>, <<PROCESSING, RETRYING>>,
                  <<RETRYING, PENDING>>, <<FAILED, PENDING>> }]_vars

\* C19: in TaskProcessor, while the server is up, the retry_count of a task
\* goes up by exactly 1 when a run of it ends in the except branch and by
\* nothing else (not by a successful run, add_task, update_task or
\* delete_task), and it goes down only to 0 and only when reset_failed
\* takes the task from Failed to Pending.
RetryCountLaw ==
    [][(guiUp /\ guiUp') =>
         \A r \in 1..Len(guiHeap') :
           (/\ r <= Len(guiHeap)
            /\ \/ r \in Range(guiQueue')
               \/ \E w \in Workers : guiWorkers'[w].ref = r) =>
             LET failing == \E w \in Workers :
                              /\ guiWorkers[w].ref = r
                              /\ guiWorkers[w].pc = "running"
                              /\ guiWorkers'[w].pc = "persist"
                              /\ guiHeap'[r].status = FAILED
                 before == guiHeap[r].retry_count
                 after == guiHeap'[r].retry_count
             IN  /\ failing => after = before + 1
                 /\ after > before => failing /\ after = before + 1
                 /\ after < before =>
                      /\ after = 0
                      /\ guiHeap[r].status = FAILED
                      /\ guiHeap'[r].status = PENDING]_vars

\* C19: the only task of the queue failed once (its row says failed,
\* retry_count 1), was reset, and a run of it has just failed again:
\* retry_count is 1 once more.
FailedAgainAfterReset ==
    /\ guiUp
    /\ Len(guiQueue) = 1
    /\ \E w \in Workers :
         /\ guiWorkers[w].pc = "persist"
         /\ guiWorkers[w].ref = guiQueue[1]
    /\ guiHeap[guiQueue[1]].status = FAILED
    /\ guiHeap[guiQueue[1]].retry_count = 1
    /\ \E row \in guiDb :
         /\ row.id = guiHeap[guiQueue[1]].id
         /\ row.status = "failed"
         /\ row.retry_count = 1

\* C20: no task of the queue is Completed with the error text of a failed
\* model call stored as the result of a step.
NoCompletedWithErrorText ==
    \A r \in Range(guiQueue) :
      guiHeap[r].status = COMPLETED =>
        \A i \in 1..Len(guiHeap[r].results) :
          guiHeap[r].results[i].v # "Error: connection refused"

\* ---------------------------------------------------------------------
\* The handlers of the editing requests.

\* C21: delete_task on the id of a task of the queue leaves out exactly
\* one task: the list it builds is one shorter than the queue.
DeleteRemovesExactlyOne ==
    [][(guiReq.op = "none" /\ guiReq'.op = "delete" /\ guiReq'.drop # {UnknownId}) =>
         Len(guiReq'.list) = Len(guiQueue) - 1]_vars

\* C22: update_task goes on to its assignments only for a task that is in
\* the queue and Pending when it tests the status; when it returns False
\* the first task with the id, if there is one, is not Pending and no task,
\* the queue, the snapshot and the tasks table are all unchanged; when it
\* returns True the task has the given content, in memory, in the snapshot
\* and in its row; and the content of a task of the queue changes in no
\* other step.
UpdateOnlyWhenPending ==
    [][/\ (guiReq.op = "none" /\ guiReq'.op = "update") =>
            /\ guiReq'.ref \in Range(guiQueue)
            /\ guiHeap[guiReq'.ref].status = PENDING
            /\ UNCHANGED <<guiHeap, guiQueue, guiFile, guiDb>>
       /\ (guiReply' # guiReply /\ guiReply'.op = "update_task" /\ ~guiReply'.ret) =>
            /\ \A i \in 1..Len(guiQueue) :
                 (/\ guiHeap[guiQueue[i]].id = guiReply'.id
                  /\ \A j \in 1..(i - 1) : guiHeap[guiQueue[j]].id # guiReply'.id) =>
                   guiHeap[guiQueue[i]].status # PENDING
            /\ UNCHANGED <<guiHeap, guiQueue, guiFile, guiDb>>
       /\ (guiReq.op = "update" /\ guiReq'.op = "none" /\ guiUp') =>
            /\ guiReply' = Reply("update_task", guiHeap[guiReq.ref].id, TRUE)
            /\ guiHeap'[guiReq.ref].content = guiReq.content
            /\ \A k \in 1..Len(guiQueue) :
                 guiQueue[k] = guiReq.ref => guiFile'.data[k].content = guiReq.content
            /\ \E row \in guiDb' :
                 row.id = guiHeap[guiReq.ref].id /\ row.content = guiReq.content
       /\ \A r \in Range(guiQueue) \cap Range(guiQueue') :
            guiHeap'[r].content # guiHeap[r].content =>
              guiReq.op = "update" /\ guiReq.ref = r]_vars

\* C22: update_task has returned False for the id of a task that is in the
\* queue and Completed, and the snapshot still is the queue's.
UpdateRefusedOnCompleted ==
    /\ guiUp
    /\ guiReply.op = "update_task"
    /\ ~guiReply.ret
    /\ guiReq.op = "none"
    /\ Len(guiQueue) = 1
    /\ guiHeap[guiQueue[1]].id = guiReply.id
    /\ guiHeap[guiQueue[1]].status = COMPLETED
    /\ guiFile = SnapshotOf(GUIQueueTasks)

\* C23: the content and the metadata of a task of the queue do not change
\* in a step taken while its status is not Pending.
ContentFixedOncePicked ==
    [][\A r \in Range(guiQueue) \cap Range(guiQueue') :
         guiHeap[r].status # PENDING =>
           /\ guiHeap'[r].content = guiHeap[r].content
           /\ guiHeap'[r].metadata = guiHeap[r].metadata]_vars

\* C24: a step that takes a task of the queue from Failed to Pending
\* (reset_failed) does so for every Failed task of the queue, setting
\* retry_count to 0 and error to None and nothing else of it, and leaves
\* every other task and the queue as they are.
ResetFailedFrame ==
    [][(/\ guiUp /\ guiUp'
        /\ \E r \in Range(guiQueue) :
             guiHeap[r].status = FAILED /\ guiHeap'[r].status = PENDING) =>
         /\ guiQueue' = guiQueue
         /\ \A r \in Range(guiQueue) :
              guiHeap'[r] = IF guiHeap[r].status = FAILED
                            THEN [guiHeap[r] EXCEPT !.status = PENDING,
                                                    !.retry_count = 0,
                                                    !.error = NoneVal]
                            ELSE guiHeap[r]]_vars

\* C24: of two tasks, the one that had failed (its row still says failed,
\* retry_count 1) is Pending with retry_count 0 and no error after the
\* reset, and the one that had completed is still Completed.
ResetBesideCompleted ==
    /\ guiUp
    /\ guiRequests = 4
    /\ Len(guiQueue) = 2
    /\ \E a, b \in Range(guiQueue) :
         /\ guiHeap[a].id # guiHeap[b].id
         /\ guiHeap[a].status = PENDING
         /\ guiHeap[a].retry_count = 0
         /\ guiHeap[a].error = NoneVal
         /\ \E row \in guiDb :
              row.id = guiHeap[a].id /\ row.status = "failed" /\ row.retry_count = 1
         /\ guiHeap[b].status = COMPLETED
         /\ guiHeap[b].results # EmptyDict

\* C25: no two tasks of the queue have the same id.
NoTwoTasksShareAnId ==
    \A i, j \in 1..Len(guiQueue) :
      i # j => guiHeap[guiQueue[i]].id # guiHeap[guiQueue[j]].id

\* ---------------------------------------------------------------------
\* The steps of a run in UniversalTaskProcessor.

\* C26: while a run is at a step whose plugin is not registered, the task
\* is not changed (error, retry_count and status included), the run goes
\* on to the next step, and it is left only by the stop event or the death
\* of the process.
UnknownPluginIsSkipped ==
    [][(/\ cliPc = "task"
        /\ cliStep <= Len(CLICurrentSteps)
        /\ CLICurrentSteps[cliStep].hasPlugin
        /\ CLICurrentSteps[cliStep].plugin \notin Plugins
        /\ cliPc' # "down") =>
         /\ cliQueue' = cliQueue
         /\ cliStep' \in {cliStep, cliStep + 1}
         /\ cliPc' = "task" \/ (cliPc' = "after" /\ cliStop)]_vars

\* C26: a task whose first step names a plugin that is not registered has
\* completed: the later steps stored their results, that step stored none,
\* and error and retry_count are as at creation.
CompletedPastUnknownPlugin ==
    /\ cliPc = "after"
    /\ cliQueue[cliIdx].config_name = "custom_tasks"
    /\ cliQueue[cliIdx].status = COMPLETED
    /\ ~DictHas(cliQueue[cliIdx].results, "fetch")
    /\ DictHas(cliQueue[cliIdx].results, "run")
    /\ DictHas(cliQueue[cliIdx].results, "digest")
    /\ cliQueue[cliIdx].error = NoneVal
    /\ cliQueue[cliIdx].retry_count = 0

\* C27: a step in which a plugin returns an error text stores that text
\* under the name of the step, changes nothing else of the task (status,
\* error and retry_count included) and passes to the next step; and a run
\* ends in Failed or Retrying only at a step that can raise.
ErrorValueIsAResult ==
    [][/\ (/\ cliPc = "task"
           /\ cliPc' # "down"
           /\ cliStep <= Len(CLICurrentSteps)
           /\ cliQueue' # cliQueue
           /\ "error_value" \in StepOutcomes(CLICurrentSteps[cliStep])
           /\ StepValue(CLICurrentSteps[cliStep], "error_value") \in
                {cliQueue'[cliIdx].results[k].v : k \in 1..Len(cliQueue'[cliIdx].results)}) =>
            /\ cliQueue' = [cliQueue EXCEPT ![cliIdx].results =
                              DictSet(@, CLICurrentSteps[cliStep].name,
                                      StepValue(CLICurrentSteps[cliStep], "error_value"))]
            /\ cliQueue'[cliIdx].status = PROCESSING
            /\ cliPc' = "task"
            /\ cliStep' = cliStep + 1
       /\ (/\ cliPc = "task"
           /\ cliPc' = "after"
           /\ cliQueue'[cliIdx].status \in {FAILED, RETRYING}) =>
            /\ cliStep <= Len(CLICurrentSteps)
            /\ "raise" \in StepOutcomes(CLICurrentSteps[cliStep])
            /\ cliQueue'[cliIdx].error \in ExceptionMessages(CLICurrentSteps[cliStep])]_vars

\* C27: a task one of whose plugins returned an error text has completed,
\* with that text as the result of the step and the result of the step
\* after it.
CompletedWithErrorValue ==
    /\ cliPc = "after"
    /\ cliQueue[cliIdx].config_name = "custom_tasks"
    /\ cliQueue[cliIdx].status = COMPLETED
    /\ \E k \in 1..Len(cliQueue[cliIdx].results) :
         /\ cliQueue[cliIdx].results[k].k = "run"
         /\ cliQueue[cliIdx].results[k].v = "Language ruby not allowed"
    /\ DictHas(cliQueue[cliIdx].results, "digest")
    /\ cliQueue[cliIdx].error = NoneVal
    /\ cliQueue[cliIdx].retry_count = 0

\* C28: every result of a prompt step that the row of a task holds is
\* among the results of that task in the running engine, a restart after a
\* crash included (tasks whose id is theirs alone).
CheckpointedResultsSurvive ==
    cliPc # "down" =>
      \A i \in 1..Len(cliQueue) :
        (\A j \in 1..Len(cliQueue) : j # i => cliQueue[j].id # cliQueue[i].id) =>
          \A row \in cliDb :
            row.id = cliQueue[i].id =>
              \A k \in 1..Len(row.results) :
                (\E s \in Range(TaskConfigSteps(cliQueue[i].config_name)) :
                   ~s.hasPlugin /\ s.name = row.results[k].k) =>
                  DictHas(cliQueue[i].results, row.results[k].k)

\* ---------------------------------------------------------------------
\* format_prompt.

\* C29: when the template holds the placeholder of the content, the
\* content stands verbatim in what format_prompt returns.
InsertedContentVerbatim ==
    (/\ fmPc = "done"
     /\ ~fmOut.raised
     /\ Occurs(fmTemplate, Placeholder(ContentName))) =>
      Occurs(fmOut.text, fmTask.content)

\* C30: format_prompt returns, and what it returns holds no placeholder:
\* no "{", text that is not "}", "}".
ResolveLeavesNoPlaceholder ==
    fmPc = "done" => (~fmOut.raised /\ FindAll(fmOut.text) = << >>)

(***************************************************************************)
(* Properties of format_prompt (SpecFormat), continued.                    *)
(***************************************************************************)

\* C31: the legacy placeholder {stepName_result} and the current
\* placeholder {stepName} are replaced by the same rendering of the step's
\* result: the template that is the legacy placeholder resolves to what the
\* template that is the current placeholder resolves to.
LegacyAndCurrentRenderAlike ==
    (/\ fmPc = "done"
     /\ fmTemplate = Placeholder(<<"s">> \o ResultSuffix)
     /\ fmTask.results # EmptyDict) =>
       fmOut = format_prompt(Placeholder(<<"s">>), fmTask)

\* C32: resolving a template that holds no {...} placeholder returns it
\* unchanged, whatever the task is.
PlainTemplateUnchanged ==
    (fmPc = "done" /\ FindAll(fmTemplate) = << >>) => fmOut = Returned(fmTemplate)

(***************************************************************************)
(* Properties of BackupManager (SpecBackup).                               *)
(***************************************************************************)

BoundedRetryLaw ==
    /\ Len(rqTrace) <= rqMax
    /\ \A i \in 1..(Len(rqTrace) - 1) : rqTrace[i].kind \in {"timeout", "connection error"}
    /\ rqPc = "loop" =>
         \A i \in 1..Len(rqTrace) : rqTrace[i].kind \in {"timeout", "connection error"}
    /\ rqPc = "returned" =>
         /\ ~rqResult.raised
         /\ (rqTrace # << >> /\ rqTrace[Len(rqTrace)].kind = "response") =>
               rqResult = ResponseResult(rqTrace[Len(rqTrace)].status_code)
         /\ (rqTrace = << >> \/ rqTrace[Len(rqTrace)].kind # "response") =>
               rqResult.status = "error"
         /\ (rqTrace # << >> /\ rqTrace[Len(rqTrace)].kind \in {"timeout", "connection error"}) =>
               Len(rqTrace) = rqMax

\* A call that got HTTP 500 at its third attempt, after a timeout and a
\* connection error, and returned it.
ResponseAfterTwoRetries ==
    /\ rqPc = "returned"
    /\ Len(rqTrace) = 3
    /\ rqTrace[1].kind = "timeout"
    /\ rqTrace[2].kind = "connection error"
    /\ rqTrace[3] = Attempt("response", 500)
    /\ rqResult = ResponseResult(500)

(***************************************************************************)
(* Properties of MCPManager (SpecManager).                                 *)
(***************************************************************************)

\* C35: execute_tool always returns a result.  For an unknown server, a
\* disabled one, one that is not running, one without an instance, a tool
\* the instance lacks, or a tool that raises, the result has status
\* "error"; no tool method is invoked in any of these cases but the last;
\* and last_used changes only when all the checks of the server passed.
ExecuteToolReturnsError ==
    mcDone.op = "execute_tool" =>
        LET name == mcDone.server_name
            before == mcDone.servers
            ready == /\ name \in DOMAIN before
                     /\ before[name].enabled
                     /\ before[name].status = "running"
                     /\ name \in mcDone.instances
        IN  /\ mcDone.status \in {"success", "error"}
            /\ (~ready \/ mcDone.tool_name \in {"absent", "broken"}) => mcDone.status = "error"
            /\ (~ready \/ mcDone.tool_name = "absent") => ~mcDone.invoked
            /\ ~ready => mcServers = before
            /\ \A other \in DOMAIN before \ {name} : mcServers[other] = before[other]
            /\ DOMAIN mcServers = DOMAIN before

\* execute_tool on a server that is enabled and running but whose instance
\* shutdown has removed.
ToolRefusedAfterShutdown ==
    /\ mcDone.op = "execute_tool"
    /\ mcDone.server_name = "json-parser"
    /\ mcDone.server_name \in DOMAIN mcDone.servers
    /\ mcDone.servers["json-parser"].enabled
    /\ mcDone.servers["json-parser"].status = "running"
    /\ "json-parser" \notin mcDone.instances
    /\ mcDone.status = "error"
    /\ ~mcDone.invoked

(***************************************************************************)
(* Properties of the engines, continued.                                   *)
(***************************************************************************)

\* C36: at most one task of the queue has the status Processing, and a task
\* that has it is the one process_task is running.
OnlyTheRunningTaskIsProcessing ==
    /\ Cardinality({i \in 1..Len(cliQueue) : cliQueue[i].status = PROCESSING}) <= 1
    /\ \A i \in 1..Len(cliQueue) :
         cliQueue[i].status = PROCESSING => (cliPc = "task" /\ cliIdx = i)

\* C37: start_processing is never a call without effect that leaves a
\* Pending task with no worker: as long as start_processing is the last
\* request the server has answered, a queue with a Pending task has a
\* worker loop alive.
StartedQueueHasAWorker ==
    (guiUp /\ guiReply = StartReply /\ GUIPending # << >>) =>
        \E w \in Workers : guiWorkers[w].pc # "none"

\* C38: whenever the flag processing is set, a worker loop is alive, also
\* after a persistence write has raised at the end of a task run.
ProcessingFlagHasAWorker ==
    (guiUp /\ guiProcessing) => \E w \in Workers : guiWorkers[w].pc # "none"

\* C39: process_task on a task whose config_name has no configuration
\* returns without changing the task and without writing the tasks table,
\* and while the process lives such a task keeps the status it has.
NoConfigLeavesTaskAlone ==
    [][/\ (/\ cliPc = "batch"
           /\ cliPc' = "after"
           /\ cliQueue[cliIdx].config_name \notin ConfigNames) =>
            (cliQueue' = cliQueue /\ cliDb' = cliDb)
       /\ \A i \in 1..Len(cliQueue) :
            (/\ i <= Len(cliQueue')
             /\ cliQueue'[i].id = cliQueue[i].id
             /\ cliQueue[i].config_name \notin ConfigNames) =>
              cliQueue'[i] = cliQueue[i]]_vars

\* process_task has returned for a pending task without a configuration,
\* behind a task that has one and was run.
ReturnedForMissingConfig ==
    /\ cliPc = "after"
    /\ cliIdx = 2
    /\ cliQueue[1].status \notin {PENDING, PROCESSING}
    /\ cliQueue[2].config_name \notin ConfigNames
    /\ cliQueue[2].status = PENDING

\* C40: a run of a task that holds results of an earlier run starts at the
\* first declared step and goes through the steps one by one; a step that
\* stores a result stores it whether or not the key is there, in place
\* when it is and at the end when it is not; the run completes only
\* behind the last step; and the keys of results stay in declared order.
RerunStartsAtFirstStep ==
    [][/\ (cliPc = "batch" /\ cliPc' = "task") => cliStep' = 1
       /\ (cliPc = "task" /\ cliPc' = "task" /\ cliStep' # cliStep) =>
            LET step == CLICurrentSteps[cliStep]
                before == cliQueue[cliIdx].results
                after == cliQueue'[cliIdx].results
            IN  /\ cliStep' = cliStep + 1
                /\ StepOutcomes(step) # {"skip"} =>
                     /\ DictHas(after, step.name)
                     /\ DictHas(before, step.name) => DictKeys(after) = DictKeys(before)
                     /\ ~DictHas(before, step.name) =>
                          DictKeys(after) = Append(DictKeys(before), step.name)
                     /\ \A i \in 1..Len(before) :
                          before[i].k # step.name => after[i] = before[i]
       /\ (cliPc = "task" /\ cliPc' = "after" /\ cliQueue'[cliIdx].status = COMPLETED) =>
            cliStep > Len(CLICurrentSteps)
       /\ \A i \in 1..Len(cliQueue') :
            LET keys == DictKeys(cliQueue'[i].results)
                names == TaskConfigSteps(cliQueue'[i].config_name)
            IN  \A a, b \in 1..Len(keys) :
                  a < b => \E m, n \in 1..Len(names) :
                             m < n /\ names[m].name = keys[a] /\ names[n].name = keys[b]]_vars

\* A search task whose earlier run failed at its last step is run again:
\* the first step has been executed and the three results of the earlier
\* run are in place.
SecondRunOverOldResults ==
    /\ cliPc = "task"
    /\ cliStep = 2
    /\ cliQueue[cliIdx].config_name = "search_tasks"
    /\ cliQueue[cliIdx].retry_count = 1
    /\ cliQueue[cliIdx].error = "Permission denied"
    /\ DictKeys(cliQueue[cliIdx].results) = <<"web_search", "summarize", "create_report">>

====
